---------------------------- MODULE Spec2Model ----------------------------
(***************************************************************************)
(* A model of the window docking engine of the skinned interface          *)
(* (src/skins/ui_dock.c): the adjacency predicate, the flood-fill that     *)
(* captures a cluster of docked windows, the snap correction, and the      *)
(* press / motion / release handlers of a drag.                            *)
(***************************************************************************)
EXTENDS Integers, Sequences, FiniteSets, TLC

(***************************************************************************)
(* Bounds of the model.                                                    *)
(***************************************************************************)
\* gdk_screen_width() and gdk_screen_height(): the screen of the model.
ScreenW == 8
ScreenH == 7
\* config.snap_distance.
SnapDistance == 2
\* The number of GUI events (press, motion, release) one behaviour handles.
MaxEvents == 4

\* The three skinned windows (WINDOW_MAIN, WINDOW_EQ, WINDOW_PLAYLIST).
Wins == {"main", "eq", "pl"}

\* NULL of a GList.
NoList == << >>

VARIABLES
    pos,            \* window -> <<x, y>>: gtk_window_get_position
    size,           \* window -> <<w, h>>: gtk_window_get_size
    swin,           \* window -> <<x, y>>: SkinnedWindow.x, SkinnedWindow.y
    wlist,          \* the dock window list handed to the handlers
    show_wm_decorations,   \* config.show_wm_decorations
    snap_windows,          \* config.snap_windows
    is_moving,      \* window -> object data "is_moving"
    move_offset,    \* window -> object data "move_offset_x", "move_offset_y"
    docked_list,    \* window -> object data "docked_list"
    window_list,    \* window -> object data "window_list"
    pointer_grab,   \* the window holding the pointer grab, or "none"
    last,           \* the last event handled and its arguments
    nev,            \* number of events handled
    geom_seen,      \* history: window -> position at the latest press
    earlier         \* history: the windows captured by earlier drags

dockVars == << pos, size, swin, wlist, show_wm_decorations, snap_windows,
               is_moving, move_offset, docked_list, window_list,
               pointer_grab, last, nev, geom_seen, earlier >>

\* The flood-fill of get_docked_list, one loop iteration at a time.
VARIABLES
    f_pc,           \* "idle", "call", "loop" or "done"
    f_w,            \* the window the fill was started for
    f_stack,        \* the active calls: [w, init_off_x, init_off_y, i]
    f_dlist         \* dlist, as built so far

fillVars == << f_pc, f_w, f_stack, f_dlist >>

\* is_docked applied to two rectangles, in both call orders.
VARIABLES
    r_a, r_b,       \* the rectangles [x, y, w, h]
    r_res           \* << >>, or << is_docked(a, b), is_docked(b, a) >>

rectVars == << r_a, r_b, r_res >>

\* The do-while loop of dock_shade, one node of its for loop at a time.
VARIABLES
    sh_pc,          \* "idle", "start", "pass", "done" (the loop) or "resized"
    sh_widget,      \* the window being shaded
    sh_new_h,       \* its new height
    sh_slist,       \* slist
    sh_off_y,       \* off_y
    sh_orig_off_y,  \* orig_off_y
    sh_node,        \* the index in slist of the node of the for loop
    sh_passes,      \* passes of the do-while loop started
    sh_before,      \* history: the positions p and the sizes s of the
                    \* windows when dock_shade was called
    sh_moved        \* history: the windows gtk_window_move was called
                    \* for by dock_shade, in the order of the calls

shadeVars == << sh_pc, sh_widget, sh_new_h, sh_slist, sh_off_y,
                sh_orig_off_y, sh_node, sh_passes, sh_before, sh_moved >>

\* The layout of layout.c: the Items, the bays and the tree of containers.
VARIABLES
    l_items,        \* items: the sequence of Items
    l_docks,        \* docks[DOCKS]: bay -> its paned, or NullId
    l_child,        \* bin -> its child: the tree of containers under layout
    l_center,       \* center, or NullId once destroyed
    l_file,         \* the layout file: its characters, or NoFile
    l_last,         \* history: the last call and its arguments
    l_calls,        \* number of calls made
    l_position,     \* paned -> its position, or NoPosition
    l_idle,         \* the idle sources: the RestoreSizeData not yet run
    l_crashed,      \* the program was ended by a fault
    l_pack          \* paned -> << what is in its first pane, what is in
                    \* its second pane >>, or << >> when there is none

layoutVars == << l_items, l_docks, l_child, l_center, l_file, l_last, l_calls,
                 l_position, l_idle, l_crashed, l_pack >>

\* dock_window_set_decorated and the list its callers keep.
VARIABLES
    dw_list,        \* the dock window list
    dw_decorated,   \* window -> gtk_window_get_decorated
    dw_last,        \* history: the last call, its arguments and the list
                    \* and the decoration it found
    dw_calls        \* number of calls made

decoVars == << dw_list, dw_decorated, dw_last, dw_calls >>

VARIABLES
    m_file,         \* what mp4_decode found: "mp4", "aac" or "http_aac"
    m_playing,      \* playback->playing
    m_pause_flag,   \* pause_flag
    m_seek_value,   \* seek_value
    m_paused,       \* paused of the decode loop
    m_sampleID,     \* sampleID of my_decode_mp4; the frames my_decode_aac
                    \* has used
    m_dec,          \* where the decoder thread is
    m_ctl,          \* where the thread that calls the plugin is
    m_op,           \* the call that thread makes, and history: where the
                    \* decoder was when the call had the mutex
    m_calls,        \* number of calls made
    m_passed,       \* history: number of pass_audio calls
    m_stopped       \* history: an mp4_stop has returned

mp4Vars == << m_file, m_playing, m_pause_flag, m_seek_value, m_paused,
              m_sampleID, m_dec, m_ctl, m_op, m_calls, m_passed, m_stopped >>

VARIABLES
    fw_filename,    \* the filename safe_create is called with
    fw_exists,      \* the paths aud_vfs_file_test finds
    fw_pc,          \* where safe_create is
    fw_count,       \* count
    fw_scratch,     \* the name the last sprintf made
    fw_written,     \* history: the bytes the last sprintf wrote
    fw_opened,      \* the path given to aud_vfs_fopen, or NoPath
    fw_result       \* what safe_create returned: "none" yet, "file", "NULL"

writerVars == << fw_filename, fw_exists, fw_pc, fw_count, fw_scratch,
                 fw_written, fw_opened, fw_result >>

moreVars == << decoVars, mp4Vars, writerVars >>

vars == << dockVars, fillVars, rectVars, shadeVars, layoutVars, moreVars >>

\* The values of the variables a specification does not use.
FillIdle ==
    f_pc = "idle" /\ f_w = "main" /\ f_stack = << >> /\ f_dlist = << >>

NoDecoCall == [op |-> "none", window |-> "main", decorated |-> 0,
               list |-> << >>, was |-> FALSE]

DecoIdle ==
    /\ dw_list = << >>
    /\ dw_decorated = [w \in Wins |-> TRUE]
    /\ dw_last = NoDecoCall
    /\ dw_calls = 0

NoMp4Call == [op |-> "none", arg |-> 0, dec |-> "none"]

\* Nothing is played.
Mp4Idle ==
    /\ m_file = "mp4"
    /\ m_playing = FALSE
    /\ m_pause_flag = FALSE
    /\ m_seek_value = -1
    /\ m_paused = FALSE
    /\ m_sampleID = 1
    /\ m_dec = "done"
    /\ m_ctl = "idle"
    /\ m_op = NoMp4Call
    /\ m_calls = 0
    /\ m_passed = 0
    /\ m_stopped = FALSE

NoPath == << >>

\* safe_create is not called.
WriterIdle ==
    /\ fw_filename = << "a" >>
    /\ fw_exists = { }
    /\ fw_pc = "idle"
    /\ fw_count = 0
    /\ fw_scratch = NoPath
    /\ fw_written = 0
    /\ fw_opened = NoPath
    /\ fw_result = "none"

MoreIdle == DecoIdle /\ Mp4Idle /\ WriterIdle

RectIdle ==
    r_a = << 0, 0, 1, 1 >> /\ r_b = << 0, 0, 1, 1 >> /\ r_res = << >>

ShadeIdle ==
    /\ sh_pc = "idle" /\ sh_widget = "main" /\ sh_new_h = 0
    /\ sh_slist = << >> /\ sh_off_y = 0 /\ sh_orig_off_y = 0
    /\ sh_node = 1 /\ sh_passes = 0
    /\ sh_before = [p |-> [w \in Wins |-> << 0, 0 >>],
                     s |-> [w \in Wins |-> << 0, 0 >>]]
    /\ sh_moved = << >>

(***************************************************************************)
(* layout.c: the widgets, the containers and the Items.                    *)
(***************************************************************************)
\* enum {DOCK_LEFT, DOCK_RIGHT, DOCK_TOP, DOCK_BOTTOM, DOCKS}
DOCK_LEFT == 0
DOCK_RIGHT == 1
DOCK_TOP == 2
DOCK_BOTTOM == 3
DOCKS == 4

\* Item names are strings of characters.
NameA == << "a" >>
NameB == << "b" >>
NameC == << "c", " ", "d" >>
Names == { NameA, NameB, NameC }

\* A GtkWidget pointer: the kind of widget, and for a widget made for an
\* Item the name and the number of the plugin widget it was made for, for
\* the paned of a bay the bay.
WidgetId(o, n, d) == [o |-> o, n |-> n, d |-> d]
NullId == WidgetId("null", << >>, 0)
LayoutId == WidgetId("layout", << >>, 0)
CenterId == WidgetId("center", << >>, 0)
\* The k-th widget of the plugin called n, as handed to layout_add.
PluginWidget(n, k) == WidgetId("widget", n, k)
\* The widgets layout.c makes for the Item a plugin widget is attached to.
VBoxOf(widget) == WidgetId("vbox", widget.n, widget.d)
WindowOf(widget) == WidgetId("window", widget.n, widget.d)
ItemPanedOf(widget) == WidgetId("paned", widget.n, widget.d)
\* The paned of a bay.
DockPanedOf(dock) == WidgetId("dock paned", << >>, dock)

Widgets == { PluginWidget(n, 1) : n \in Names } \cup { PluginWidget(NameA, 2) }

Paneds == { ItemPanedOf(w) : w \in Widgets } \cup
          { DockPanedOf(d) : d \in 0..(DOCKS - 1) }

\* A container with one child: the layout alignment, a floating window, or
\* the alignment "mine" or "next" of a paned.
Bin(c, side) == [c |-> c, s |-> side]
LayoutBin == Bin(LayoutId, "bin")
WindowBin(widget) == Bin(WindowOf(widget), "bin")
Mine(paned) == Bin(paned, "mine")
Next_(paned) == Bin(paned, "next")

Bins == { LayoutBin } \cup { WindowBin(w) : w \in Widgets } \cup
        { Mine(p) : p \in Paneds } \cup { Next_(p) : p \in Paneds }

\* The layout file when it does not exist.
NoFile == << "absent" >>

\* struct Item; freed tells that the Item was given back to the allocator
\* (g_slice_free) while the list still points to it.
Item(name, widget, vbox, paned, window, dock, x, y, w, h) ==
    [name |-> name, widget |-> widget, vbox |-> vbox, paned |-> paned,
     window |-> window, dock |-> dock, x |-> x, y |-> y, w |-> w, h |-> h,
     freed |-> FALSE]

\* The position of a paned that was given none: gtk_paned_set_position
\* takes a negative position for "unset".
NoPosition == -1

\* No call made yet.
NoCall == [op |-> "none", widget |-> NullId, name |-> << >>, dock |-> 0]

\* layout_new and layout_add_center have run: the layout holds the center.
LayoutIdle ==
    /\ l_items = << >>
    /\ l_docks = [d \in 0..(DOCKS - 1) |-> NullId]
    /\ l_child = [b \in Bins |-> IF b = LayoutBin THEN CenterId ELSE NullId]
    /\ l_center = CenterId
    /\ l_file = NoFile
    /\ l_last = NoCall
    /\ l_calls = 0
    /\ l_position = [p \in Paneds |-> NoPosition]
    /\ l_idle = << >>
    /\ l_crashed = FALSE
    /\ l_pack = [p \in Paneds |-> << >>]

Abs(n) == IF n < 0 THEN -n ELSE n

\* A faulty variant: the position cached at the latest drag start, not the live one.
gtk_window_get_position_cached(w) == geom_seen[w]

gtk_window_get_position(w) == pos[w]

gtk_window_get_size(w) == size[w]

(***************************************************************************)
(* docked_list_compare and g_list_find_custom over a list of DockedWindow: *)
(* membership by window identity.                                          *)
(***************************************************************************)
\* A faulty variant: the two DockedWindow nodes are compared, not their windows.
docked_list_compare_nodes(a, b) == IF a = b THEN 0 ELSE 1

docked_list_compare(a, b) == IF a.w = b.w THEN 0 ELSE 1

g_list_find_custom(dlist, temp) ==
    \E i \in 1..Len(dlist) : docked_list_compare(dlist[i], temp) = 0

DockedWindow(w, ox, oy) == [w |-> w, offset_x |-> ox, offset_y |-> oy]

(***************************************************************************)
(* is_docked: the edge-touching predicate.                                 *)
(***************************************************************************)
\* A faulty variant: the horizontal overlap test forgets the width of b.
is_docked_no_width(a_x, a_y, a_w, a_h, b_x, b_y, b_w, b_h) ==
    \/ /\ (a_x = b_x + b_w) \/ (a_x + a_w = b_x)
       /\ b_y + b_h >= a_y
       /\ b_y <= a_y + a_h
    \/ /\ (a_y = b_y + b_h) \/ (a_y + a_h = b_y)
       /\ b_x >= a_x
       /\ b_x <= a_x + a_w

is_docked(a_x, a_y, a_w, a_h, b_x, b_y, b_w, b_h) ==
    \/ /\ (a_x = b_x + b_w) \/ (a_x + a_w = b_x)
       /\ b_y + b_h >= a_y
       /\ b_y <= a_y + a_h
    \/ /\ (a_y = b_y + b_h) \/ (a_y + a_h = b_y)
       /\ b_x >= a_x - b_w
       /\ b_x <= a_x + a_w

\* is_docked on two windows at their live geometry.
WinDocked(a, b) ==
    is_docked(gtk_window_get_position(a)[1], gtk_window_get_position(a)[2],
              gtk_window_get_size(a)[1], gtk_window_get_size(a)[2],
              gtk_window_get_position(b)[1], gtk_window_get_position(b)[2],
              gtk_window_get_size(b)[1], gtk_window_get_size(b)[2])

(***************************************************************************)
(* get_docked_list: the recursive flood-fill.  gdl_loop is the for loop    *)
(* over wlist from index i, for the window w with initial offset           *)
(* (init_off_x, init_off_y).                                               *)
(***************************************************************************)
RECURSIVE gdl_loop(_, _, _, _, _, _)
gdl_loop(dlist, wl, i, w, init_off_x, init_off_y) ==
    IF i > Len(wl) THEN dlist
    ELSE
      LET t == wl[i] IN
      IF g_list_find_custom(dlist, DockedWindow(t, 0, 0))
      THEN gdl_loop(dlist, wl, i + 1, w, init_off_x, init_off_y)
      ELSE IF WinDocked(w, t)
      THEN LET dwin == DockedWindow(t,
                         gtk_window_get_position(t)[1]
                           - gtk_window_get_position(w)[1] + init_off_x,
                         gtk_window_get_position(t)[2]
                           - gtk_window_get_position(w)[2] + init_off_y)
               d1 == Append(dlist, dwin)
               d2 == gdl_loop(d1, wl, 1, t, dwin.offset_x, dwin.offset_y)
           IN gdl_loop(d2, wl, i + 1, w, init_off_x, init_off_y)
      ELSE gdl_loop(dlist, wl, i + 1, w, init_off_x, init_off_y)

\* A faulty variant: only the windows docked to w itself, without the recursion.
RECURSIVE gdl_direct(_, _, _, _, _, _)
gdl_direct(dlist, wl, i, w, init_off_x, init_off_y) ==
    IF i > Len(wl) THEN dlist
    ELSE IF ~g_list_find_custom(dlist, DockedWindow(wl[i], 0, 0))
            /\ WinDocked(w, wl[i])
    THEN gdl_direct(Append(dlist, DockedWindow(wl[i],
                       gtk_window_get_position(wl[i])[1]
                         - gtk_window_get_position(w)[1] + init_off_x,
                       gtk_window_get_position(wl[i])[2]
                         - gtk_window_get_position(w)[2] + init_off_y)),
                    wl, i + 1, w, init_off_x, init_off_y)
    ELSE gdl_direct(dlist, wl, i + 1, w, init_off_x, init_off_y)

\* A faulty variant: the offset of a window is taken from the window it is
\* docked to, not from the grabbed window.
RECURSIVE gdl_local(_, _, _, _, _, _)
gdl_local(dlist, wl, i, w, init_off_x, init_off_y) ==
    IF i > Len(wl) THEN dlist
    ELSE
      LET t == wl[i] IN
      IF g_list_find_custom(dlist, DockedWindow(t, 0, 0))
      THEN gdl_local(dlist, wl, i + 1, w, init_off_x, init_off_y)
      ELSE IF WinDocked(w, t)
      THEN LET dwin == DockedWindow(t,
                         gtk_window_get_position(t)[1]
                           - gtk_window_get_position(w)[1],
                         gtk_window_get_position(t)[2]
                           - gtk_window_get_position(w)[2])
               d1 == Append(dlist, dwin)
               d2 == gdl_local(d1, wl, 1, t, dwin.offset_x, dwin.offset_y)
           IN gdl_local(d2, wl, i + 1, w, init_off_x, init_off_y)
      ELSE gdl_local(dlist, wl, i + 1, w, init_off_x, init_off_y)

get_docked_list_local(dlist, wl, w, init_off_x, init_off_y) ==
    gdl_local(IF dlist = NoList THEN << DockedWindow(w, 0, 0) >> ELSE dlist,
              wl, 1, w, init_off_x, init_off_y)

get_docked_list_direct(dlist, wl, w, init_off_x, init_off_y) ==
    gdl_direct(IF dlist = NoList THEN << DockedWindow(w, 0, 0) >> ELSE dlist,
               wl, 1, w, init_off_x, init_off_y)

get_docked_list(dlist, wl, w, init_off_x, init_off_y) ==
    gdl_loop(IF dlist = NoList THEN << DockedWindow(w, 0, 0) >> ELSE dlist,
             wl, 1, w, init_off_x, init_off_y)

(***************************************************************************)
(* snap_edge, snap and calc_snap_offset.                                   *)
(***************************************************************************)
snap_edge(x, y, w, h, bx, by, bw, bh) ==
    LET sd == SnapDistance
        \* the y adjustments made inside either branch
        AdjY(yy) ==
            LET y1 == IF (yy > by - sd) /\ (yy < by + sd) THEN by ELSE yy
            IN IF (y1 + h > by + bh - sd) /\ (y1 + h < by + bh + sd)
               THEN by + bh - h ELSE y1
        hit1 == (x + w > bx - sd) /\ (x + w < bx + sd)
                /\ (y > by - h - sd) /\ (y < by + bh + sd)
        x1 == IF hit1 THEN bx - w ELSE x
        y1 == IF hit1 THEN AdjY(y) ELSE y
        hit2 == (x1 > bx + bw - sd) /\ (x1 < bx + bw + sd)
                /\ (y1 > by - h - sd) /\ (y1 < by + bh + sd)
        x2 == IF hit2 THEN bx + bw ELSE x1
        y2 == IF hit2 THEN AdjY(y1) ELSE y1
    IN << x2, y2 >>

snap(x, y, w, h, bx, by, bw, bh) ==
    LET p == snap_edge(x, y, w, h, bx, by, bw, bh)
        q == snap_edge(p[2], p[1], h, w, by, bx, bh, bw)
    IN << q[2], q[1] >>

\* A faulty variant: the windows of dlist are snap targets too.
RECURSIVE cso_windows_all(_, _, _, _, _, _, _)
cso_windows_all(dlist, wl, j, dw, x, y, off) ==
    IF j > Len(wl) THEN off
    ELSE
      LET s  == gtk_window_get_position(wl[j])
          ss == gtk_window_get_size(wl[j])
          n  == gtk_window_get_size(dw.w)
          nx == dw.offset_x + off[1] + x
          ny == dw.offset_y + off[2] + y
          r  == snap(nx, ny, n[1], n[2], s[1], s[2], ss[1], ss[2])
      IN cso_windows_all(dlist, wl, j + 1, dw, x, y,
                         << off[1] + (r[1] - nx), off[2] + (r[2] - ny) >>)

\* The inner loop of calc_snap_offset: snap the docked window dw to the
\* windows of wl, from index j, that are not in dlist.
RECURSIVE cso_windows(_, _, _, _, _, _, _)
cso_windows(dlist, wl, j, dw, x, y, off) ==
    IF j > Len(wl) THEN off
    ELSE IF g_list_find_custom(dlist, DockedWindow(wl[j], 0, 0))
    THEN cso_windows(dlist, wl, j + 1, dw, x, y, off)
    ELSE
      LET s  == gtk_window_get_position(wl[j])
          ss == gtk_window_get_size(wl[j])
          n  == gtk_window_get_size(dw.w)
          nx == dw.offset_x + off[1] + x
          ny == dw.offset_y + off[2] + y
          r  == snap(nx, ny, n[1], n[2], s[1], s[2], ss[1], ss[2])
      IN cso_windows(dlist, wl, j + 1, dw, x, y,
                     << off[1] + (r[1] - nx), off[2] + (r[2] - ny) >>)

\* The outer loop of calc_snap_offset, from the i-th docked window.
RECURSIVE cso_docked(_, _, _, _, _, _)
cso_docked(dlist, wl, i, x, y, off) ==
    IF i > Len(dlist) THEN off
    ELSE
      LET dw == dlist[i]
          n  == gtk_window_get_size(dw.w)
          nx == dw.offset_x + off[1] + x
          ny == dw.offset_y + off[2] + y
          ox1 == IF Abs(nx) < SnapDistance THEN off[1] - nx ELSE off[1]
          oy1 == IF Abs(ny) < SnapDistance THEN off[2] - ny ELSE off[2]
          ox2 == IF Abs(nx + n[1] - ScreenW) < SnapDistance
                 THEN ox1 - (nx + n[1] - ScreenW) ELSE ox1
          oy2 == IF Abs(ny + n[2] - ScreenH) < SnapDistance
                 THEN oy1 - (ny + n[2] - ScreenH) ELSE oy1
      IN cso_docked(dlist, wl, i + 1, x, y,
                    cso_windows(dlist, wl, 1, dw, x, y, << ox2, oy2 >>))

\* A faulty variant: the snap_windows setting is not consulted.
calc_snap_offset_always(dlist, wl, x, y) ==
    cso_docked(dlist, wl, 1, x, y, << 0, 0 >>)

calc_snap_offset(dlist, wl, x, y) ==
    IF ~snap_windows THEN << 0, 0 >>
    ELSE cso_docked(dlist, wl, 1, x, y, << 0, 0 >>)

(***************************************************************************)
(* docked_list_move: move every window of the list to (x, y) plus its      *)
(* offset, in list order; the result is the new position of every window.  *)
(***************************************************************************)
\* A faulty variant: every window is moved to (x, y), its offset dropped.
docked_list_move_no_offset(p, list, i, x, y) ==
    [w \in Wins |-> IF w \in { list[k].w : k \in i..Len(list) }
                    THEN << x, y >> ELSE p[w]]

RECURSIVE docked_list_move(_, _, _, _, _)
docked_list_move(p, list, i, x, y) ==
    IF i > Len(list) THEN p
    ELSE docked_list_move(
            [p EXCEPT ![list[i].w] = << x + list[i].offset_x,
                                        y + list[i].offset_y >>],
            list, i + 1, x, y)

(***************************************************************************)
(* The events.  The toolkit delivers them under its implicit pointer grab: *)
(* from a button press in a window until the release, every button and     *)
(* motion event goes to that window; with no button down, motion and       *)
(* release events may reach any window.                                    *)
(***************************************************************************)
\* Pointer positions (event->x_root, event->y_root) and grab points
\* (event->x, event->y) of the events of the model.
PointerXs == {1, 3, 5}
PointerYs == {1, 4}
GrabPoints == { << 0, 0 >>, << 1, 1 >> }

Event(op, w, x, y, ml) == [op |-> op, w |-> w, x |-> x, y |-> y, ml |-> ml]

\* The windows of a list of DockedWindow.
Captured(dlist) == { dlist[i].w : i \in 1..Len(dlist) }

dock_is_moving(w) == is_moving[w]

dock_move_press(w, ev, move_list) ==
    /\ nev < MaxEvents
    /\ pointer_grab \in {"none", w}
    /\ nev' = nev + 1
    /\ pointer_grab' = w
    /\ last' = Event("press", w, ev[1], ev[2], move_list)
    /\ geom_seen' = pos
    /\ IF show_wm_decorations
       THEN UNCHANGED << is_moving, move_offset, docked_list, window_list,
                         earlier >>
       ELSE /\ move_offset' = [move_offset EXCEPT ![w] = ev]
            /\ docked_list' = [docked_list EXCEPT ![w] =
                   IF move_list
                   THEN get_docked_list(NoList, wlist, w, 0, 0)
                   ELSE << DockedWindow(w, 0, 0) >>]
            /\ window_list' = [window_list EXCEPT ![w] = wlist]
            /\ is_moving' = [is_moving EXCEPT ![w] = TRUE]
            /\ earlier' = earlier \cup Captured(docked_list[w])
    /\ UNCHANGED << pos, size, swin, wlist, show_wm_decorations, snap_windows >>
    /\ UNCHANGED << fillVars, rectVars, layoutVars, moreVars, shadeVars >>

dock_move_motion(w, ev) ==
    /\ nev < MaxEvents
    /\ pointer_grab \in {"none", w}
    /\ nev' = nev + 1
    /\ last' = Event("motion", w, ev[1], ev[2], FALSE)
    /\ IF ~dock_is_moving(w)
       THEN UNCHANGED << pos, swin >>
       ELSE LET dlist == docked_list[w]
                x == ev[1] - move_offset[w][1]
                y == ev[2] - move_offset[w][2]
                off == calc_snap_offset(dlist, window_list[w], x, y)
            IN /\ pos' = docked_list_move(pos, dlist, 1, x + off[1], y + off[2])
               /\ swin' = docked_list_move(swin, dlist, 1, x + off[1], y + off[2])
    /\ UNCHANGED << size, wlist, show_wm_decorations, snap_windows,
                    is_moving, move_offset, docked_list, window_list,
                    pointer_grab, geom_seen, earlier >>
    /\ UNCHANGED << fillVars, rectVars, layoutVars, moreVars, shadeVars >>

\* A faulty variant: the release leaves the "is_moving" marker set.
dock_move_release_keeps_marker(w) ==
    /\ nev < MaxEvents
    /\ pointer_grab \in {"none", w}
    /\ nev' = nev + 1
    /\ pointer_grab' = "none"
    /\ last' = Event("release", w, 0, 0, FALSE)
    /\ move_offset' = [move_offset EXCEPT ![w] = << 0, 0 >>]
    /\ docked_list' = [docked_list EXCEPT ![w] = NoList]
    /\ window_list' = [window_list EXCEPT ![w] = NoList]
    /\ earlier' = earlier \cup Captured(docked_list[w])
    /\ UNCHANGED << pos, size, swin, wlist, show_wm_decorations, snap_windows,
                    geom_seen, is_moving >>
    /\ UNCHANGED << fillVars, rectVars, layoutVars, moreVars, shadeVars >>

dock_move_release(w) ==
    /\ nev < MaxEvents
    /\ pointer_grab \in {"none", w}
    /\ nev' = nev + 1
    /\ pointer_grab' = "none"
    /\ last' = Event("release", w, 0, 0, FALSE)
    /\ is_moving' = [is_moving EXCEPT ![w] = FALSE]
    /\ move_offset' = [move_offset EXCEPT ![w] = << 0, 0 >>]
    /\ docked_list' = [docked_list EXCEPT ![w] = NoList]
    /\ window_list' = [window_list EXCEPT ![w] = NoList]
    /\ earlier' = earlier \cup Captured(docked_list[w])
    /\ UNCHANGED << pos, size, swin, wlist, show_wm_decorations, snap_windows,
                    geom_seen >>
    /\ UNCHANGED << fillVars, rectVars, layoutVars, moreVars, shadeVars >>

(***************************************************************************)
(* The initial layouts: a horizontal chain, a cycle of three mutually      *)
(* docked windows, three separate windows, and a stack with a playlist     *)
(* nearly as wide as the screen.                                           *)
(***************************************************************************)
Layout(pm, pe, pp, sm, se, sp) ==
    [p |-> [w \in Wins |-> CASE w = "main" -> pm [] w = "eq" -> pe [] OTHER -> pp],
     s |-> [w \in Wins |-> CASE w = "main" -> sm [] w = "eq" -> se [] OTHER -> sp]]

Layouts ==
    { Layout(<<0, 0>>, <<2, 0>>, <<4, 0>>, <<2, 2>>, <<2, 2>>, <<2, 2>>),
      Layout(<<1, 1>>, <<3, 1>>, <<1, 3>>, <<2, 2>>, <<2, 2>>, <<2, 2>>),
      Layout(<<0, 0>>, <<5, 3>>, <<1, 5>>, <<2, 2>>, <<2, 2>>, <<2, 1>>),
      Layout(<<3, 2>>, <<3, 4>>, <<0, 0>>, <<2, 2>>, <<2, 1>>, <<6, 1>>) }

WindowLists == { << "main", "eq", "pl" >>, << "pl", "main" >> }

DockIdle ==
    /\ is_moving = [w \in Wins |-> FALSE]
    /\ move_offset = [w \in Wins |-> << 0, 0 >>]
    /\ docked_list = [w \in Wins |-> NoList]
    /\ window_list = [w \in Wins |-> NoList]
    /\ pointer_grab = "none"
    /\ last = Event("none", "main", 0, 0, FALSE)
    /\ nev = 0
    /\ earlier = {}

DockInit ==
    /\ \E l \in Layouts : pos = l.p /\ size = l.s /\ swin = l.p /\ geom_seen = l.p
    /\ wlist \in WindowLists
    /\ show_wm_decorations \in BOOLEAN
    /\ snap_windows \in BOOLEAN
    /\ DockIdle

Init == DockInit /\ FillIdle /\ RectIdle /\ MoreIdle /\ ShadeIdle /\ LayoutIdle

Next ==
    \/ \E w \in Wins, g \in GrabPoints, ml \in BOOLEAN : dock_move_press(w, g, ml)
    \/ \E w \in Wins, x \in PointerXs, y \in PointerYs : dock_move_motion(w, << x, y >>)
    \/ \E w \in Wins : dock_move_release(w)

Spec == Init /\ [][Next]_vars


(***************************************************************************)
(* Geometry stated on its own, for the properties: two windows touch when  *)
(* a side of one lies on the opposite side of the other and their spans    *)
(* along that side overlap.                                                *)
(***************************************************************************)
SpanOverlap(lo1, hi1, lo2, hi2) == lo1 <= hi2 /\ lo2 <= hi1

RectTouch(ax, ay, aw, ah, bx, by, bw, bh) ==
    \/ /\ (ax + aw = bx) \/ (bx + bw = ax)
       /\ SpanOverlap(ay, ay + ah, by, by + bh)
    \/ /\ (ay + ah = by) \/ (by + bh = ay)
       /\ SpanOverlap(ax, ax + aw, bx, bx + bw)

Touch(a, b) ==
    RectTouch(pos[a][1], pos[a][2], size[a][1], size[a][2],
              pos[b][1], pos[b][2], size[b][1], size[b][2])

\* The windows of cand reachable from the set S through Touch.
RECURSIVE Reach(_, _)
Reach(S, cand) ==
    LET T == S \cup { v \in cand : \E u \in S : Touch(u, v) }
    IN IF T = S THEN S ELSE Reach(T, cand)

ListWins(wl) == { wl[i] : i \in 1..Len(wl) }

\* The last event was a press that started a drag of the docked cluster.
PressedCluster ==
    last.op = "press" /\ last.ml /\ is_moving[last.w]

\* The last event was a motion of a window being dragged.
Dragged == last.op = "motion" /\ is_moving[last.w]

\* C1: with include_docked set, the captured set built by dock_move_press
\* is exactly the grabbed window plus every candidate window reachable from
\* it through the transitive closure of the docking relation.
C1_CapturedIsClosure ==
    PressedCluster =>
        Captured(docked_list[last.w]) = Reach({last.w}, ListWins(wlist))

\* A press in the middle or at an end of a chain captured three windows, one
\* of them not touching the grabbed window itself.
C1_Witness ==
    /\ PressedCluster
    /\ Cardinality(Captured(docked_list[last.w])) = 3
    /\ \E v \in Captured(docked_list[last.w]) : v # last.w /\ ~Touch(last.w, v)

\* C3: after every dock_move_motion of a drag each captured window is at the
\* grabbed window's position plus its captured offset, and the relative
\* positions of the captured windows are those they had at dock_move_press.
C3_RelativePositionsKept ==
    Dragged =>
        \A i \in 1..Len(docked_list[last.w]) :
            LET d == docked_list[last.w][i] IN
            /\ pos[d.w][1] = pos[last.w][1] + d.offset_x
            /\ pos[d.w][2] = pos[last.w][2] + d.offset_y
            /\ pos[d.w][1] - pos[last.w][1]
                 = geom_seen[d.w][1] - geom_seen[last.w][1]
            /\ pos[d.w][2] - pos[last.w][2]
                 = geom_seen[d.w][2] - geom_seen[last.w][2]

\* A cluster of at least two windows was moved away from where it was
\* grabbed, with a snap correction applied.
C3_Witness ==
    /\ Dragged
    /\ Len(docked_list[last.w]) >= 2
    /\ pos[last.w] # geom_seen[last.w]
    /\ pos[last.w] # << last.x - move_offset[last.w][1],
                        last.y - move_offset[last.w][2] >>

\* The last event was a press that started a drag.
Pressed == last.op = "press" /\ is_moving[last.w]

\* C29: every entry of the captured set built at dock_move_press carries
\* as offset the position of its window minus the position of the grabbed
\* window at the press, at whatever depth of the flood-fill the window was
\* reached, and the offset of the grabbed window itself is (0, 0).
C29_OffsetsAreFromGrabbedWindow ==
    Pressed =>
        /\ docked_list[last.w][1] = DockedWindow(last.w, 0, 0)
        /\ \A i \in 1..Len(docked_list[last.w]) :
              LET d == docked_list[last.w][i] IN
              /\ d.offset_x = geom_seen[d.w][1] - geom_seen[last.w][1]
              /\ d.offset_y = geom_seen[d.w][2] - geom_seen[last.w][2]
              /\ d.w = last.w => d.offset_x = 0 /\ d.offset_y = 0

\* A press captured a window that does not touch the grabbed window, two
\* windows away from it.
C29_Witness ==
    /\ PressedCluster
    /\ \E i \in 1..Len(docked_list[last.w]) :
          LET d == docked_list[last.w][i] IN
          /\ d.w # last.w
          /\ ~Touch(last.w, d.w)
          /\ << d.offset_x, d.offset_y >> # << 0, 0 >>
          /\ \E j \in 1..(i - 1) :
                /\ docked_list[last.w][j].w # last.w
                /\ Touch(docked_list[last.w][j].w, d.w)

(***************************************************************************)
(* Snapping.  The candidate position of a captured window is the pointer   *)
(* minus the grab point plus the window's offset: where the window would   *)
(* go without any correction.                                              *)
(***************************************************************************)
CandX(d) == last.x - move_offset[last.w][1] + d.offset_x

CandY(d) == last.y - move_offset[last.w][2] + d.offset_y

Near(e, t) == Abs(e - t) < SnapDistance

\* The candidate windows outside the captured set of the drag of last.w.
Outside == ListWins(window_list[last.w]) \ Captured(docked_list[last.w])

\* The captured window d, at its candidate position, has a side within the
\* snap distance of a screen edge.
NearScreen(d) ==
    \/ \E e \in { CandX(d), CandX(d) + size[d.w][1] } :
           Near(e, 0) \/ Near(e, ScreenW)
    \/ \E e \in { CandY(d), CandY(d) + size[d.w][2] } :
           Near(e, 0) \/ Near(e, ScreenH)

\* The captured window d, at its candidate position, has a side within the
\* snap distance of a side of the window s.
NearWindow(d, s) ==
    LET cx == CandX(d)       cy == CandY(d)
        cw == size[d.w][1]   ch == size[d.w][2]
        sx == pos[s][1]      sy == pos[s][2]
        sw == size[s][1]     sh == size[s][2]
    IN \/ /\ \E e \in { cx, cx + cw }, t \in { sx, sx + sw } : Near(e, t)
          /\ cy < sy + sh + SnapDistance
          /\ sy < cy + ch + SnapDistance
       \/ /\ \E e \in { cy, cy + ch }, t \in { sy, sy + sh } : Near(e, t)
          /\ cx < sx + sw + SnapDistance
          /\ sx < cx + cw + SnapDistance

NothingNear ==
    \A i \in 1..Len(docked_list[last.w]) :
        /\ ~NearScreen(docked_list[last.w][i])
        /\ \A s \in Outside : ~NearWindow(docked_list[last.w][i], s)

\* The candidate list of the drag of last.w without the captured windows.
OutsideList ==
    SelectSeq(window_list[last.w],
              LAMBDA t : t \notin Captured(docked_list[last.w]))

\* The correction applied by the last motion: where the grabbed window is
\* minus where the pointer alone would put it.
Correction ==
    << pos[last.w][1] - (last.x - move_offset[last.w][1]),
       pos[last.w][2] - (last.y - move_offset[last.w][2]) >>

\* C32: a window of the captured set is never a snap target of
\* calc_snap_offset: the correction of a motion is the one that the screen
\* edges and the windows of the candidate list outside the captured set
\* give, wherever the captured windows are, and with no window outside it
\* is the one of the screen edges alone.
C32_CapturedNeverSnapTargets ==
    (Dragged /\ snap_windows) =>
        /\ Correction =
              cso_docked(docked_list[last.w], OutsideList, 1,
                         last.x - move_offset[last.w][1],
                         last.y - move_offset[last.w][2], << 0, 0 >>)
        /\ Outside = {} =>
              Correction =
                cso_docked(docked_list[last.w], << >>, 1,
                           last.x - move_offset[last.w][1],
                           last.y - move_offset[last.w][2], << 0, 0 >>)

\* A cluster of two windows was dragged with snapping on and a window
\* outside it, and no correction was applied, though each captured window
\* lies against the other.
C32_Witness ==
    /\ Dragged /\ snap_windows
    /\ Len(docked_list[last.w]) = 2
    /\ Outside # {}
    /\ Correction = << 0, 0 >>
    /\ \E i, j \in 1..2 :
          i # j /\ NearWindow(docked_list[last.w][i], docked_list[last.w][j].w)

\* C4: when a side of the dragged window is within the snap tolerance of a
\* screen edge, the correction leaves a snapped side exactly on its target.
\* Stated for the drag of a single window and for each axis: afterwards a
\* side of the window lies on a screen edge or on a side of a window outside
\* the captured set.
C4_SnapIsExact ==
    (Dragged /\ snap_windows /\ Len(docked_list[last.w]) = 1) =>
        LET d  == docked_list[last.w][1]
            nw == size[last.w][1]
            nh == size[last.w][2]
            x  == pos[last.w][1]
            y  == pos[last.w][2]
        IN /\ (Near(CandX(d), 0) \/ Near(CandX(d) + nw, ScreenW)) =>
                  \/ x = 0
                  \/ x + nw = ScreenW
                  \/ \E s \in Outside :
                         {x, x + nw} \cap {pos[s][1], pos[s][1] + size[s][1]} # {}
           /\ (Near(CandY(d), 0) \/ Near(CandY(d) + nh, ScreenH)) =>
                  \/ y = 0
                  \/ y + nh = ScreenH
                  \/ \E s \in Outside :
                         {y, y + nh} \cap {pos[s][2], pos[s][2] + size[s][2]} # {}

\* C5: calc_snap_offset returns (0,0) when snapping is disabled, and when no
\* captured window has a side within snap_distance of a screen edge or of a
\* side of a non-captured window; the cluster then moves to exactly the
\* pointer minus the grab point.
C5_NoSnapMovesFreely ==
    (Dragged /\ (~snap_windows \/ NothingNear)) =>
        /\ calc_snap_offset(docked_list[last.w], window_list[last.w],
                            last.x - move_offset[last.w][1],
                            last.y - move_offset[last.w][2]) = << 0, 0 >>
        /\ \A i \in 1..Len(docked_list[last.w]) :
               LET d == docked_list[last.w][i]
               IN pos[d.w] = << CandX(d), CandY(d) >>

\* With snapping enabled a cluster was moved to a place with nothing near.
C5_Witness ==
    /\ Dragged
    /\ snap_windows
    /\ NothingNear
    /\ Len(docked_list[last.w]) >= 2
    /\ pos[last.w] # geom_seen[last.w]

\* C7: while a drag is active on a window, a further dock_move_press on it
\* does not start a new drag: the captured set and the grab offset remain
\* those of the active drag until dock_move_release.
C7_PressDoesNotRestart ==
    [][ \A w \in Wins :
          (is_moving[w] /\ is_moving'[w]) =>
              /\ docked_list'[w] = docked_list[w]
              /\ move_offset'[w] = move_offset[w] ]_vars

\* C8: dock_move_release ends a drag from every state: afterwards the window
\* is not moving, its captured set and grab offsets are cleared, and a later
\* dock_move_motion moves no window until the next dock_move_press.
C8_ReleaseEndsDrag ==
    /\ [](last.op = "release" =>
            /\ ~dock_is_moving(last.w)
            /\ docked_list[last.w] = NoList
            /\ window_list[last.w] = NoList
            /\ move_offset[last.w] = << 0, 0 >>)
    /\ [][ ((\A w \in Wins : ~is_moving[w]) /\ last'.op = "motion") =>
              (pos' = pos /\ swin' = swin) ]_vars

\* A drag that had captured windows was released, and a motion event came
\* after the release.
C8_Witness ==
    /\ last.op = "motion"
    /\ \A w \in Wins : ~is_moving[w]
    /\ earlier # {}
    /\ pos # [w \in Wins |-> geom_seen[w]]

\* C9: the captured set of a drag depends only on the window geometry at the
\* moment of dock_move_press: a window captured by an earlier drag that no
\* longer touches the cluster is not captured, and a window not captured
\* before that touches it now is.
C9_CapturedFromLiveGeometry ==
    PressedCluster =>
        \A v \in Wins :
            LET now == Reach({last.w}, ListWins(wlist))
                got == Captured(docked_list[last.w])
            IN /\ (v \in earlier /\ v \notin now) => v \notin got
               /\ (v \notin earlier /\ v \in now) => v \in got

\* A window captured by an earlier drag was left out of the new captured
\* set, which holds a window that no earlier drag had captured.
C9_Witness ==
    /\ PressedCluster
    /\ \E v \in earlier : v \notin Captured(docked_list[last.w])
    /\ \E u \in Captured(docked_list[last.w]) : u # last.w /\ u \notin earlier

(***************************************************************************)
(* is_docked as a function of two rectangles.                              *)
(***************************************************************************)
\* The largest coordinate of the rectangles tried.
MaxRectCoord == 2

Rects == { << x, y, w, h >> : x \in -1..MaxRectCoord, y \in -1..MaxRectCoord,
                              w \in 1..2, h \in 1..2 }

RectInit ==
    /\ r_a \in Rects
    /\ r_b \in Rects
    /\ r_res = << >>

\* is_docked called on (a, b) and on (b, a).
RectApply ==
    /\ r_res = << >>
    /\ r_res' = << is_docked(r_a[1], r_a[2], r_a[3], r_a[4],
                             r_b[1], r_b[2], r_b[3], r_b[4]),
                   is_docked(r_b[1], r_b[2], r_b[3], r_b[4],
                             r_a[1], r_a[2], r_a[3], r_a[4]) >>
    /\ UNCHANGED << r_a, r_b, dockVars, fillVars, shadeVars, layoutVars, moreVars >>

\* The dock engine at rest, for the specifications that do not drag.
DockAtRest(l) ==
    /\ pos = l.p /\ size = l.s /\ swin = l.p /\ geom_seen = l.p
    /\ show_wm_decorations = FALSE
    /\ snap_windows = TRUE
    /\ DockIdle

RestLayout == Layout(<<0, 0>>, <<2, 0>>, <<4, 0>>, <<2, 2>>, <<2, 2>>, <<2, 2>>)

DockedInit ==
    /\ RectInit /\ DockAtRest(RestLayout) /\ wlist = << "main", "eq", "pl" >>
    /\ FillIdle /\ ShadeIdle /\ MoreIdle /\ LayoutIdle

DockedNext == RectApply

SpecDocked == DockedInit /\ [][DockedNext]_vars

\* C6: is_docked is symmetric: is_docked(A,B) = is_docked(B,A) for all
\* rectangles, and two rectangles with abutting edges and overlapping
\* perpendicular span are reported docked in both call orders.
C6_IsDockedSymmetric ==
    r_res # << >> =>
        /\ r_res[1] = r_res[2]
        /\ RectTouch(r_a[1], r_a[2], r_a[3], r_a[4],
                     r_b[1], r_b[2], r_b[3], r_b[4])
             => (r_res[1] /\ r_res[2])

\* B lies under A, shifted to the left so that their horizontal spans
\* overlap in part, and is_docked has been applied.
C6_Witness ==
    /\ r_res = << TRUE, TRUE >>
    /\ r_a[2] + r_a[4] = r_b[2]
    /\ r_b[1] < r_a[1]
    /\ r_b[1] + r_b[3] > r_a[1]

(***************************************************************************)
(* The flood-fill of get_docked_list run one loop iteration at a time, on  *)
(* an explicit stack of calls, over every placement of three unit windows  *)
(* on a small grid (chains, cycles, overlapping and separate windows).     *)
(***************************************************************************)
\* The largest x coordinate of the placements tried.
FillGridX == 2

FillPlaces == { << x, y >> : x \in 0..FillGridX, y \in 0..1 }

Frame(w, ox, oy, i) == [w |-> w, init_off_x |-> ox, init_off_y |-> oy, i |-> i]

FillTop == f_stack[Len(f_stack)]

FillReplaceTop(fr) == [f_stack EXCEPT ![Len(f_stack)] = fr]

FillInit ==
    /\ pos \in [Wins -> FillPlaces]
    /\ size = [w \in Wins |-> << 1, 1 >>]
    /\ swin = pos /\ geom_seen = pos
    /\ wlist \in WindowLists
    /\ show_wm_decorations = FALSE
    /\ snap_windows = TRUE
    /\ DockIdle
    /\ f_pc = "call" /\ f_w \in Wins /\ f_stack = << >> /\ f_dlist = NoList
    /\ RectIdle /\ MoreIdle /\ ShadeIdle /\ LayoutIdle

\* The outermost call: dlist is NULL, the grabbed window is appended.
FillCall ==
    /\ f_pc = "call"
    /\ f_dlist' = IF f_dlist = NoList
                  THEN << DockedWindow(f_w, 0, 0) >> ELSE f_dlist
    /\ f_stack' = << Frame(f_w, 0, 0, 1) >>
    /\ f_pc' = "loop"
    /\ UNCHANGED << f_w, dockVars, rectVars, layoutVars, moreVars, shadeVars >>

\* The window of this iteration is already in dlist: continue.
FillSkip ==
    /\ f_pc = "loop"
    /\ FillTop.i <= Len(wlist)
    /\ g_list_find_custom(f_dlist, DockedWindow(wlist[FillTop.i], 0, 0))
    /\ f_stack' = FillReplaceTop([FillTop EXCEPT !.i = @ + 1])
    /\ UNCHANGED << f_pc, f_w, f_dlist, dockVars, rectVars, layoutVars, moreVars, shadeVars >>

\* The window of this iteration is not docked to w.
FillNotDocked ==
    /\ f_pc = "loop"
    /\ FillTop.i <= Len(wlist)
    /\ ~g_list_find_custom(f_dlist, DockedWindow(wlist[FillTop.i], 0, 0))
    /\ ~WinDocked(FillTop.w, wlist[FillTop.i])
    /\ f_stack' = FillReplaceTop([FillTop EXCEPT !.i = @ + 1])
    /\ UNCHANGED << f_pc, f_w, f_dlist, dockVars, rectVars, layoutVars, moreVars, shadeVars >>

\* The window of this iteration is docked to w: append it and recurse.
FillRecurse ==
    /\ f_pc = "loop"
    /\ FillTop.i <= Len(wlist)
    /\ ~g_list_find_custom(f_dlist, DockedWindow(wlist[FillTop.i], 0, 0))
    /\ WinDocked(FillTop.w, wlist[FillTop.i])
    /\ LET t == wlist[FillTop.i]
           dwin == DockedWindow(t,
                     gtk_window_get_position(t)[1]
                       - gtk_window_get_position(FillTop.w)[1]
                       + FillTop.init_off_x,
                     gtk_window_get_position(t)[2]
                       - gtk_window_get_position(FillTop.w)[2]
                       + FillTop.init_off_y)
       IN /\ f_dlist' = Append(f_dlist, dwin)
          /\ f_stack' = Append(FillReplaceTop([FillTop EXCEPT !.i = @ + 1]),
                               Frame(t, dwin.offset_x, dwin.offset_y, 1))
    /\ UNCHANGED << f_pc, f_w, dockVars, rectVars, layoutVars, moreVars, shadeVars >>

\* The loop of the innermost call is over: return dlist to the caller.
FillReturn ==
    /\ f_pc = "loop"
    /\ FillTop.i > Len(wlist)
    /\ f_stack' = SubSeq(f_stack, 1, Len(f_stack) - 1)
    /\ f_pc' = IF Len(f_stack) = 1 THEN "done" ELSE "loop"
    /\ UNCHANGED << f_w, f_dlist, dockVars, rectVars, layoutVars, moreVars, shadeVars >>

FillNext ==
    \/ FillCall
    \/ FillSkip
    \/ FillNotDocked
    \/ FillRecurse
    \/ FillReturn

\* The fill runs to completion once called: nothing suspends it.
SpecFill == FillInit /\ [][FillNext]_vars /\ WF_vars(FillNext)

NoDuplicates(dlist) ==
    \A i, j \in 1..Len(dlist) : dlist[i].w = dlist[j].w => i = j

\* The stepwise fill ends with the list the recursive operator computes.
FillMatchesOperator ==
    f_pc = "done" => f_dlist = get_docked_list(NoList, wlist, f_w, 0, 0)

\* C2: the flood-fill of get_docked_list terminates for every window
\* geometry, cyclic adjacency included, and the captured list never holds
\* the same window twice.
C2_FillTerminatesNoDuplicates ==
    /\ <>(f_pc = "done")
    /\ [](NoDuplicates(f_dlist))

\* The fill has ended on three windows each of which touches the other two.
C2_Witness ==
    /\ f_pc = "done"
    /\ Len(f_dlist) = 3
    /\ \A a, b \in Wins : a # b => Touch(a, b)

(***************************************************************************)
(* dock_shade up to the end of its do-while loop: the shade list and the   *)
(* displacement off_y, one node of the inner for loop at a time.           *)
(***************************************************************************)
\* find_shade_list: the for loop over winlist from index i.
RECURSIVE fsl_loop(_, _, _, _)
fsl_loop(widget, winlist, i, shade_list) ==
    IF i > Len(winlist) THEN shade_list
    ELSE
      LET dw == winlist[i]
          x  == gtk_window_get_position(widget)[1]
          w  == gtk_window_get_size(widget)[1]
          dx == gtk_window_get_position(dw.w)[1]
          dwidth == gtk_window_get_size(dw.w)[1]
      IN IF g_list_find_custom(shade_list, dw)
         THEN fsl_loop(widget, winlist, i + 1, shade_list)
         ELSE IF WinDocked(widget, dw.w) /\ (dx + dwidth > x /\ dx < x + w)
         THEN fsl_loop(widget, winlist, i + 1,
                       fsl_loop(dw.w, winlist, 1, Append(shade_list, dw)))
         ELSE fsl_loop(widget, winlist, i + 1, shade_list)

find_shade_list(widget, winlist, shade_list) ==
    fsl_loop(widget, winlist, 1, shade_list)

\* A faulty variant: the clamp at the top of the screen subtracts dy alone.
shade_adjust_drifts(dw, widget, new_h, off_y) ==
    LET y  == gtk_window_get_position(widget)[2]
        dy == gtk_window_get_position(dw.w)[2]
    IN IF dw.w # widget /\ (dy >= y) /\ ((dy + off_y) < 0)
       THEN off_y - (dy + 1)
       ELSE off_y

\* One node of the for loop inside the do-while: off_y after the window dw.
shade_adjust(dw, widget, new_h, off_y) ==
    LET y  == gtk_window_get_position(widget)[2]
        h  == gtk_window_get_size(widget)[2]
        dy == gtk_window_get_position(dw.w)[2]
        dheight == gtk_window_get_size(dw.w)[2]
        o1 == IF (dy >= y) /\ ((dy + off_y + dheight) > ScreenH)
              THEN off_y - ((dy + off_y + dheight) - ScreenH)
              ELSE IF (dy >= y) /\ ((dy + dheight) = ScreenH)
              THEN 0
              ELSE off_y
        o2 == IF (dy >= y) /\ ((dy + o1) < 0) THEN o1 - (dy + o1) ELSE o1
        o3 == IF (dy < y) /\ ((dy + (o2 - (new_h - h))) < 0)
              THEN o2 - (dy + (o2 - (new_h - h)))
              ELSE o2
    IN IF dw.w = widget THEN off_y ELSE o3

\* The most passes of the do-while loop a behaviour makes.
MaxShadePasses == 5

ShadeHeights == { 1, 2, 3, ScreenH + 1 }

ShadeYs == { -2, 0, 1, ScreenH - 3, ScreenH - 1 }

\* Where the playlist is put: on top of or under the main window or the
\* equalizer, on top of the part of the equalizer that is right of the main
\* window, or apart from both. The equalizer is twice as wide as the others.
ShadeSpots == { "over main", "under main", "over eq", "under eq",
                "right of main over eq", "apart" }

ShadeInit ==
    /\ \E ym \in ShadeYs, hm \in ShadeHeights, he \in ShadeHeights,
          hp \in ShadeHeights, eq_under \in BOOLEAN, spot \in ShadeSpots :
         LET ye == IF eq_under THEN ym + hm ELSE ym - he
             yp == CASE spot = "over main"  -> ym - hp
                     [] spot = "under main" -> ym + hm
                     [] spot = "over eq"    -> ye - hp
                     [] spot = "right of main over eq" -> ye - hp
                     [] spot = "under eq"   -> ye + he
                     [] OTHER               -> 0
             xp == CASE spot = "apart" -> 5
                     [] spot = "right of main over eq" -> 2
                     [] OTHER -> 1
             l  == Layout(<< 0, ym >>, << 0, ye >>, << xp, yp >>,
                          << 2, hm >>, << 4, he >>, << 2, hp >>)
         IN pos = l.p /\ size = l.s /\ swin = l.p /\ geom_seen = l.p
    /\ wlist = << "main", "eq", "pl" >>
    /\ show_wm_decorations = FALSE
    /\ snap_windows = TRUE
    /\ DockIdle
    /\ sh_pc = "start" /\ sh_widget = "main" /\ sh_new_h \in { 1, 3 }
    /\ sh_slist = << >> /\ sh_off_y = 0 /\ sh_orig_off_y = 0
    /\ sh_node = 1 /\ sh_passes = 0
    /\ sh_before = [p |-> [w \in Wins |-> << 0, 0 >>],
                     s |-> [w \in Wins |-> << 0, 0 >>]]
    /\ sh_moved = << >>
    /\ FillIdle /\ RectIdle /\ MoreIdle /\ LayoutIdle

\* dock_shade up to the first pass: with decorations shown the window is
\* only resized; otherwise the docked list and the shade list are built
\* afresh, off_y is set and the do-while loop is entered.
ShadeStart ==
    /\ sh_pc = "start"
    /\ IF show_wm_decorations
       THEN /\ sh_pc' = "done"
            /\ UNCHANGED << sh_slist, sh_off_y, sh_orig_off_y, sh_passes >>
       ELSE /\ sh_slist' = find_shade_list(sh_widget,
                              get_docked_list(NoList, wlist, sh_widget, 0, 0),
                              NoList)
            /\ sh_off_y' = sh_new_h - gtk_window_get_size(sh_widget)[2]
            /\ sh_orig_off_y' = sh_new_h - gtk_window_get_size(sh_widget)[2]
            /\ sh_passes' = 1
            /\ sh_pc' = "pass"
    /\ sh_before' = [p |-> pos, s |-> size]
    /\ sh_moved' = << >>
    /\ UNCHANGED << sh_widget, sh_new_h, sh_node, dockVars, fillVars, rectVars, layoutVars, moreVars >>

\* One node of the for loop.
ShadeNode ==
    /\ sh_pc = "pass"
    /\ sh_node <= Len(sh_slist)
    /\ sh_off_y' = shade_adjust(sh_slist[sh_node], sh_widget, sh_new_h, sh_off_y)
    /\ sh_node' = sh_node + 1
    /\ UNCHANGED << sh_pc, sh_widget, sh_new_h, sh_slist, sh_orig_off_y,
                    sh_passes, sh_before, sh_moved, dockVars, fillVars,
                    rectVars, layoutVars, moreVars >>

\* The end of a pass that changed off_y: orig_off_y != off_y, one more pass.
ShadeAgain ==
    /\ sh_pc = "pass"
    /\ sh_node > Len(sh_slist)
    /\ sh_orig_off_y # sh_off_y
    /\ sh_passes < MaxShadePasses
    /\ sh_orig_off_y' = sh_off_y
    /\ sh_node' = 1
    /\ sh_passes' = sh_passes + 1
    /\ UNCHANGED << sh_pc, sh_widget, sh_new_h, sh_slist, sh_off_y,
                    sh_before, sh_moved, dockVars, fillVars, rectVars,
                    layoutVars, moreVars >>

\* The end of a pass that left off_y as it was: the loop ends.
ShadeExit ==
    /\ sh_pc = "pass"
    /\ sh_node > Len(sh_slist)
    /\ sh_orig_off_y = sh_off_y
    /\ sh_pc' = "done"
    /\ UNCHANGED << sh_widget, sh_new_h, sh_slist, sh_off_y, sh_orig_off_y,
                    sh_node, sh_passes, sh_before, sh_moved, dockVars, fillVars,
                    rectVars, layoutVars, moreVars >>

\* The list without its i-th node: g_list_remove_link, g_list_free_1.
g_list_remove_link(list, i) ==
    SubSeq(list, 1, i - 1) \o SubSeq(list, i + 1, Len(list))

\* dw is docked to the top or the bottom of the rectangle (x, y, w, h), at
\* the positions p: the test of shade_move_list and of dock_shade.
shade_docked(p, x, y, w, h, dw) ==
    /\ is_docked(x, y, w, h, p[dw.w][1], p[dw.w][2],
                 gtk_window_get_size(dw.w)[1], gtk_window_get_size(dw.w)[2])
    /\ (p[dw.w][1] + gtk_window_get_size(dw.w)[1]) > x
    /\ p[dw.w][1] < (x + w)

\* shade_move_list: the for loop from node i over list, with the positions
\* p of the windows; (x, y, w, h) is the geometry of widget read on entry.
\* The result is the list left, the positions after the moves and moved
\* with the windows gtk_window_move was called for.
\* First a faulty variant: the windows docked to widget are left where
\* they are.
shade_move_list_alone(p, moved, list, i, widget, x, y, w, h, offset) ==
    [list |-> list, p |-> [p EXCEPT ![widget] = << x, y + offset >>],
     moved |-> Append(moved, widget)]

RECURSIVE shade_move_list(_, _, _, _, _, _, _, _, _, _)
shade_move_list(p, moved, list, i, widget, x, y, w, h, offset) ==
    IF i > Len(list)
    THEN [list |-> list, p |-> [p EXCEPT ![widget] = << x, y + offset >>],
          moved |-> Append(moved, widget)]
    ELSE
      LET dw == list[i]
      IN IF shade_docked(p, x, y, w, h, dw)
         THEN LET r == shade_move_list(p, moved, g_list_remove_link(list, i),
                           1, dw.w, p[dw.w][1], p[dw.w][2],
                           gtk_window_get_size(dw.w)[1],
                           gtk_window_get_size(dw.w)[2], offset)
              IN shade_move_list(r.p, r.moved, r.list, 1, widget, x, y, w, h,
                                 offset)
         ELSE shade_move_list(p, moved, list, i + 1, widget, x, y, w, h,
                              offset)

\* The first node of list whose window is widget, or 0.
shade_find_widget(list, widget) ==
    IF \E i \in 1..Len(list) : list[i].w = widget
    THEN CHOOSE i \in 1..Len(list) :
           /\ list[i].w = widget
           /\ \A j \in 1..(i - 1) : list[j].w # widget
    ELSE 0

\* The second loop of dock_shade over mlist from node i: the windows docked
\* directly to widget are moved, each with the windows docked to it.
RECURSIVE shade_apply(_, _, _, _, _, _, _)
shade_apply(p, moved, mlist, i, widget, new_h, off_y) ==
    IF i > Len(mlist) THEN [p |-> p, moved |-> moved]
    ELSE
      LET dw == mlist[i]
          x  == gtk_window_get_position(widget)[1]
          y  == gtk_window_get_position(widget)[2]
          w  == gtk_window_get_size(widget)[1]
          h  == gtk_window_get_size(widget)[2]
          dy == p[dw.w][2]
          rest == g_list_remove_link(mlist, i)
          temp == IF dy > y
                  THEN shade_move_list(p, moved, rest, 1, dw.w, p[dw.w][1],
                           dy, gtk_window_get_size(dw.w)[1],
                           gtk_window_get_size(dw.w)[2], off_y)
                  ELSE IF off_y - (new_h - h) # 0
                  THEN shade_move_list(p, moved, rest, 1, dw.w, p[dw.w][1],
                           dy, gtk_window_get_size(dw.w)[1],
                           gtk_window_get_size(dw.w)[2],
                           off_y - (new_h - h))
                  ELSE [list |-> rest, p |-> p, moved |-> moved]
      IN IF shade_docked(p, x, y, w, h, dw)
         THEN shade_apply(temp.p, temp.moved, temp.list, 1, widget, new_h,
                          off_y)
         ELSE shade_apply(p, moved, mlist, i + 1, widget, new_h, off_y)

\* dock_shade after its do-while loop: the shade list without widget is
\* walked and the docked windows are moved, then widget is resized to
\* new_h by dock_window_resize.
ShadeApplied ==
    LET k == shade_find_widget(sh_slist, sh_widget)
        mlist == IF k = 0 THEN sh_slist ELSE g_list_remove_link(sh_slist, k)
    IN shade_apply(pos, << >>, mlist, 1, sh_widget, sh_new_h, sh_off_y)

ShadeApply ==
    /\ sh_pc = "done"
    /\ \E applied \in { ShadeApplied } :
          pos' = applied.p /\ sh_moved' = applied.moved
    /\ size' = [size EXCEPT ![sh_widget] = << size[sh_widget][1], sh_new_h >>]
    /\ sh_pc' = "resized"
    /\ UNCHANGED << swin, wlist, show_wm_decorations, snap_windows, is_moving,
                    move_offset, docked_list, window_list, pointer_grab, last,
                    nev, geom_seen, earlier >>
    /\ UNCHANGED << sh_widget, sh_new_h, sh_slist, sh_off_y, sh_orig_off_y,
                    sh_node, sh_passes, sh_before, fillVars, rectVars, layoutVars, moreVars >>

\* A step of the do-while loop.
ShadeLoop ==
    \/ ShadeNode
    \/ ShadeAgain
    \/ ShadeExit

ShadeNext ==
    \/ ShadeStart
    \/ ShadeLoop
    \/ ShadeApply

\* The loop runs on once entered: nothing suspends dock_shade inside it.
SpecShade == ShadeInit /\ [][ShadeNext]_vars /\ WF_vars(ShadeLoop)

\* C10: the do-while loop of dock_shade that adjusts off_y against the
\* screen bounds reaches a fixed point and terminates, for windows taller
\* than the screen and for windows above and below the shaded one too.
C10_ShadeLoopTerminates == (sh_pc = "pass") ~> (sh_pc = "done")

\* The loop has ended after more than one pass, with a window above and a
\* window below the shaded one in the shade list, one taller than the
\* screen.
C10_Witness ==
    /\ sh_pc = "done"
    /\ sh_passes >= 2
    /\ \E i \in 1..Len(sh_slist) : pos[sh_slist[i].w][2] < pos[sh_widget][2]
    /\ \E i \in 1..Len(sh_slist) : pos[sh_slist[i].w][2] > pos[sh_widget][2]
    /\ \E i \in 1..Len(sh_slist) : size[sh_slist[i].w][2] > ScreenH

\* The window w lies within the vertical bounds of the screen at the
\* positions p and the sizes s.
InVerticalBounds(p, s, w) ==
    /\ p[w][2] >= 0
    /\ p[w][2] + s[w][2] <= ScreenH

\* The windows a and b cover a common area at the positions p and sizes s.
Overlapping(p, s, a, b) ==
    /\ p[a][1] < p[b][1] + s[b][1] /\ p[b][1] < p[a][1] + s[a][1]
    /\ p[a][2] < p[b][2] + s[b][2] /\ p[b][2] < p[a][2] + s[a][2]

\* dock_shade was called to make its window smaller, with every window on
\* the screen and no two windows overlapping: there is room for every
\* window to stay on the screen.
ShadeHasRoom ==
    /\ sh_new_h < sh_before.s[sh_widget][2]
    /\ \A w \in Wins : InVerticalBounds(sh_before.p, sh_before.s, w)
    /\ \A a, b \in Wins : a # b => ~Overlapping(sh_before.p, sh_before.s, a, b)

\* C11: after dock_shade with decorations hidden, every window of the
\* shade chain that was within the vertical bounds of the screen when
\* dock_shade was called is within them once the displacement is applied.
\* Stated for the calls that leave room (ShadeHasRoom) and for the windows
\* of the chain other than the shaded one.
C11_ShadeKeepsWindowsOnScreen ==
    (sh_pc = "resized" /\ ~show_wm_decorations /\ ShadeHasRoom) =>
        \A i \in 1..Len(sh_slist) :
            (/\ sh_slist[i].w # sh_widget
             /\ InVerticalBounds(sh_before.p, sh_before.s, sh_slist[i].w))
                => InVerticalBounds(pos, size, sh_slist[i].w)

\* When dock_shade was called the top of b was on the bottom side of a
\* and their horizontal spans overlapped: b was docked directly below a.
BelowOf(a, b) ==
    /\ a # b
    /\ sh_before.p[b][2] = sh_before.p[a][2] + sh_before.s[a][2]
    /\ sh_before.p[b][1] + sh_before.s[b][1] > sh_before.p[a][1]
    /\ sh_before.p[b][1] < sh_before.p[a][1] + sh_before.s[a][1]

\* The windows below the windows of S, through any chain.
RECURSIVE BelowChain(_)
BelowChain(S) ==
    LET T == S \cup { b \in Wins \ { sh_widget } :
                        \E a \in S \cup { sh_widget } : BelowOf(a, b) }
    IN IF T = S THEN S ELSE BelowChain(T)

\* The number of calls of gtk_window_move made for w.
MovesOf(w) == Cardinality({ i \in 1..Len(sh_moved) : sh_moved[i] = w })

\* C31: during one dock_shade the recursive displacement ends and moves
\* each window of the shade chain at most once, and every window docked
\* below the shaded window, directly or through a chain of windows docked
\* one below the other, is displaced by exactly off_y.
C31_ChainDisplacedOnceByOffY ==
    /\ (sh_pc = "done" /\ ~show_wm_decorations) =>
          Len(ShadeApplied.moved) <= Len(sh_slist)
    /\ (sh_pc = "resized" /\ ~show_wm_decorations) =>
          /\ \A w \in Wins : MovesOf(w) <= 1
          /\ \A i \in 1..Len(sh_moved) :
                /\ sh_moved[i] # sh_widget
                /\ \E k \in 1..Len(sh_slist) : sh_slist[k].w = sh_moved[i]
          /\ \A w \in BelowChain({}) :
                pos[w] = << sh_before.p[w][1], sh_before.p[w][2] + sh_off_y >>

\* dock_shade moved by a displacement other than 0 a window docked
\* directly below the shaded window and, with it, a window docked below
\* that one.
C31_Witness ==
    /\ sh_pc = "resized" /\ ~show_wm_decorations
    /\ sh_off_y # 0
    /\ Len(sh_moved) = 2
    /\ \E a, b \in Wins \ { sh_widget } :
          /\ BelowOf(sh_widget, a) /\ BelowOf(a, b)
          /\ ~BelowOf(sh_widget, b)
          /\ pos[b] = << sh_before.p[b][1], sh_before.p[b][2] + sh_off_y >>

\* The window w was docked directly below the shaded window when
\* dock_shade was called: its top on the bottom side of the shaded window,
\* their horizontal spans overlapping.
DirectlyBelow(w) ==
    LET x == sh_before.p[sh_widget][1]
        y == sh_before.p[sh_widget][2]
        dx == sh_before.p[w][1]
    IN /\ w # sh_widget
       /\ sh_before.p[w][2] = y + sh_before.s[sh_widget][2]
       /\ dx + sh_before.s[w][1] > x
       /\ dx < x + sh_before.s[sh_widget][1]

\* C30: after dock_shade with decorations hidden, every window that was
\* docked directly below the shaded window is still edge-adjacent to it:
\* its top is the y of the shaded window plus new_height, also when the
\* displacement was limited by a screen edge.
C30_WindowsBelowStayAdjacent ==
    (sh_pc = "resized" /\ ~show_wm_decorations) =>
        \A w \in Wins :
            DirectlyBelow(w) => pos[w][2] = pos[sh_widget][2] + sh_new_h

\* The same for the calls whose displacement no screen edge limited.
UnlimitedShadeKeepsAdjacent ==
    (/\ sh_pc = "resized" /\ ~show_wm_decorations
     /\ sh_off_y = sh_new_h - sh_before.s[sh_widget][2]) =>
        \A w \in Wins :
            DirectlyBelow(w) => pos[w][2] = pos[sh_widget][2] + sh_new_h

\* dock_shade was called with every window on the screen and no two
\* windows overlapping.
ShadeSane ==
    /\ \A w \in Wins : InVerticalBounds(sh_before.p, sh_before.s, w)
    /\ \A a, b \in Wins : a # b => ~Overlapping(sh_before.p, sh_before.s, a, b)

\* The same for the calls made with every window on the screen and no
\* overlap.
SaneShadeKeepsAdjacent ==
    (sh_pc = "resized" /\ ~show_wm_decorations /\ ShadeSane) =>
        \A w \in Wins :
            DirectlyBelow(w) => pos[w][2] = pos[sh_widget][2] + sh_new_h


(***************************************************************************)
(* The GTK calls layout.c makes, on a state st = [items, docks, child,     *)
(* center, position, idle, crashed, pack] of the layout.                   *)
(***************************************************************************)
LayoutState(items, docks, child, center, position, idle, crashed, pack) ==
    [items |-> items, docks |-> docks, child |-> child, center |-> center,
     position |-> position, idle |-> idle, crashed |-> crashed,
     pack |-> pack]

\* gtk_bin_get_child; NULL for a NULL container.
gtk_bin_get_child(st, bin) ==
    IF bin.c = NullId THEN NullId ELSE st.child[bin]

\* The widget has a parent container.
HasParent(st, widget) == \E b \in Bins : st.child[b] = widget

\* The "destroy" signal of widget and of everything inside it: the
\* NULL_ON_DESTROY handlers clear the pointers that were set to it.
RECURSIVE gtk_widget_destroy(_, _)
gtk_widget_destroy(st, widget) ==
    LET unparented == [b \in Bins |-> IF st.child[b] = widget THEN NullId
                                      ELSE st.child[b]]
    IN CASE widget.o = "vbox" ->
              [st EXCEPT !.child = unparented,
                         !.items = [i \in 1..Len(st.items) |->
                            IF st.items[i].vbox = widget
                            THEN [st.items[i] EXCEPT !.vbox = NullId,
                                                     !.widget = NullId]
                            ELSE st.items[i]]]
         [] widget.o = "center" ->
              [st EXCEPT !.child = unparented, !.center = NullId]
         [] widget.o = "window" ->
              LET inside == st.child[Bin(widget, "bin")]
                  st1 == [st EXCEPT
                            !.child = [unparented EXCEPT ![Bin(widget, "bin")] = NullId],
                            !.items = [i \in 1..Len(st.items) |->
                               IF st.items[i].window = widget
                               THEN [st.items[i] EXCEPT !.window = NullId]
                               ELSE st.items[i]]]
              IN gtk_widget_destroy(st1, inside)
         [] widget.o \in { "paned", "dock paned" } ->
              LET in_mine == st.child[Mine(widget)]
                  in_next == st.child[Next_(widget)]
                  st1 == [st EXCEPT
                            !.child = [unparented EXCEPT ![Mine(widget)] = NullId,
                                                         ![Next_(widget)] = NullId],
                            !.docks = [d \in 0..(DOCKS - 1) |->
                               IF st.docks[d] = widget THEN NullId
                               ELSE st.docks[d]],
                            !.items = [i \in 1..Len(st.items) |->
                               IF st.items[i].paned = widget
                               THEN [st.items[i] EXCEPT !.paned = NullId]
                               ELSE st.items[i]],
                            !.position[widget] = NoPosition,
                            !.pack[widget] = << >>,
                            !.idle = [k \in 1..Len(st.idle) |->
                               IF st.idle[k].paned = widget
                               THEN [st.idle[k] EXCEPT !.dangling = TRUE]
                               ELSE st.idle[k]]]
              IN gtk_widget_destroy(gtk_widget_destroy(st1, in_mine), in_next)
         [] OTHER -> st

\* gtk_container_remove: nothing happens unless widget is the child of bin;
\* the container's reference is dropped, and the widget is destroyed unless
\* the caller holds a reference of its own (held).
gtk_container_remove(st, bin, widget, held) ==
    IF bin.c = NullId \/ widget = NullId \/ st.child[bin] # widget THEN st
    ELSE LET st1 == [st EXCEPT !.child[bin] = NullId]
         IN IF held THEN st1 ELSE gtk_widget_destroy(st1, widget)

\* gtk_container_add to a GtkBin: refused when the bin has a child or the
\* widget has a parent.
gtk_container_add(st, bin, widget) ==
    IF \/ bin.c = NullId \/ widget = NullId
       \/ st.child[bin] # NullId \/ HasParent(st, widget)
    THEN st
    ELSE [st EXCEPT !.child[bin] = widget]


(***************************************************************************)
(* layout.c: the helpers of item_add and item_remove. An Item is named by  *)
(* its index in items; 0 stands for NULL.                                  *)
(***************************************************************************)
\* dock_get_parent: the bin the paned of the bay goes into.
dock_get_parent(st, dock) ==
    IF ~(dock >= 0 /\ dock < DOCKS) THEN Bin(NullId, "bin")
    ELSE IF \E scan \in 0..(dock - 1) : st.docks[scan] # NullId
    THEN Next_(st.docks[CHOOSE scan \in 0..(dock - 1) :
                   /\ st.docks[scan] # NullId
                   /\ \A above \in (scan + 1)..(dock - 1) :
                          st.docks[above] = NullId])
    ELSE LayoutBin

item_get_prev(st, i) ==
    LET found == { j \in 1..(i - 1) :
                     /\ st.items[j].widget # NullId
                     /\ st.items[j].dock = st.items[i].dock }
    IN IF found = {} THEN 0
       ELSE CHOOSE j \in found : \A k \in found : k <= j

\* A faulty variant: no item of the bay is found after the item.
item_get_next_none(st, i) == 0

item_get_next(st, i) ==
    LET found == { j \in (i + 1)..Len(st.items) :
                     /\ st.items[j].widget # NullId
                     /\ st.items[j].dock = st.items[i].dock }
    IN IF found = {} THEN 0
       ELSE CHOOSE j \in found : \A k \in found : j <= k

\* item_get_parent: "next" of the paned of the previous item of the bay,
\* or "mine" of the paned of the bay; a NULL paned has no data.
item_get_parent(st, i) ==
    LET prev == item_get_prev(st, i)
    IN IF prev # 0 THEN Next_(st.items[prev].paned)
       ELSE Mine(st.docks[st.items[i].dock])

\* item_save_size: the allocation rect of the vbox and, for a floating
\* item, the position spot of its window, as GTK reports them.
item_save_size(st, i, rect, spot) ==
    IF ~(st.items[i].widget # NullId /\ st.items[i].vbox # NullId) THEN st
    ELSE LET st1 == [st EXCEPT !.items[i].w = rect[1], !.items[i].h = rect[2]]
         IN IF st.items[i].dock < 0 /\ st.items[i].window # NullId
            THEN [st1 EXCEPT !.items[i].x = spot[1], !.items[i].y = spot[2]]
            ELSE st1

IS_VERTICAL(dock) == (dock \div 2) % 2 = 1
IS_AFTER(dock) == dock % 2 = 1

\* What paned_new hands to g_idle_add: the RestoreSizeData. dangling tells
\* that the paned and the pane the data points to have been destroyed
\* since.
RestoreSizeData(paned, vertical, w, h) ==
    [paned |-> paned, widget |-> Mine(paned), vertical |-> vertical,
     w |-> w, h |-> h, dangling |-> FALSE]

\* paned_new, for the paned named paned: "mine" is packed into the first
\* pane and "next" into the second, or the other way round when after is
\* set; with a size to restore, the position is set at once when the item
\* is in the first pane, and left to restore_size_cb when it is in the
\* second.
\* A faulty variant: "mine" is packed first whatever after is.
paned_new_mine_first(st, paned, vertical, after, w, h) ==
    LET length == IF vertical THEN h ELSE w
        packed == [st EXCEPT !.pack[paned] = << "mine", "next" >>]
    IN IF length = 0 THEN packed
       ELSE IF after
       THEN [packed EXCEPT
               !.idle = Append(@, RestoreSizeData(paned, vertical, w, h))]
       ELSE [packed EXCEPT !.position[paned] = length]

paned_new(st, paned, vertical, after, w, h) ==
    LET length == IF vertical THEN h ELSE w
        packed == [st EXCEPT !.pack[paned] =
                      << IF after THEN "next" ELSE "mine",
                         IF after THEN "mine" ELSE "next" >>]
    IN IF length = 0 THEN packed
       ELSE IF after
       THEN [packed EXCEPT
               !.idle = Append(@, RestoreSizeData(paned, vertical, w, h))]
       ELSE [packed EXCEPT !.position[paned] = length]

\* The paned is one of the pane tree.
PanedExists(st, paned) ==
    \/ \E d \in 0..(DOCKS - 1) : st.docks[d] = paned
    \/ \E i \in 1..Len(st.items) : st.items[i].paned = paned

\* gtk_paned_get_position: the position set, or the one the paned took
\* by itself.
gtk_paned_get_position(st, paned, natural) ==
    IF st.position[paned] = NoPosition THEN natural ELSE st.position[paned]

\* gtk_paned_set_position: a negative position unsets it.
gtk_paned_set_position(st, paned, position) ==
    [st EXCEPT !.position[paned] = IF position < 0 THEN NoPosition
                                   ELSE position]

\* What a run of restore_size_cb on freed widgets can do: GTK's type
\* checks refuse the pointers, the memory is that of the paned made since
\* in their place, or the program is ended.
IdleOutcomes == { "refused", "reused", "ended" }

\* A faulty variant: the source asks to be run again.
restore_size_cb_again(st, d, rect, natural, outcome) ==
    LET fixed == gtk_paned_get_position(st, d.paned, natural)
               - (IF d.vertical THEN d.h - rect[2] ELSE d.w - rect[1])
    IN [st |-> gtk_paned_set_position(st, d.paned, fixed), again |-> TRUE]

\* restore_size_cb on the data d, the pane d.widget being allocated rect;
\* again is what it returns to the main loop.
restore_size_cb(st, d, rect, natural, outcome) ==
    LET fixed == gtk_paned_get_position(st, d.paned, natural)
               - (IF d.vertical THEN d.h - rect[2] ELSE d.w - rect[1])
        set == gtk_paned_set_position(st, d.paned, fixed)
    IN IF ~d.dangling THEN [st |-> set, again |-> FALSE]
       ELSE CASE outcome = "refused" -> [st |-> st, again |-> FALSE]
              [] outcome = "reused" ->
                   [st |-> IF PanedExists(st, d.paned) THEN set ELSE st,
                    again |-> FALSE]
              [] outcome = "ended" ->
                   [st |-> [st EXCEPT !.crashed = TRUE], again |-> TRUE]

\* One idle turn of the main loop: the sources of pending are run in the
\* order they were added, and a source that returns FALSE is removed.
RECURSIVE g_main_idle(_, _, _, _, _)
g_main_idle(st, pending, rect, natural, outcome) ==
    IF pending = << >> \/ st.crashed THEN st
    ELSE LET d == Head(pending)
             ran == restore_size_cb(st, d, rect, natural, outcome)
             st1 == IF ran.again THEN ran.st
                    ELSE [ran.st EXCEPT !.idle =
                            SelectSeq(@, LAMBDA e : e # d)]
         IN g_main_idle(st1, Tail(pending), rect, natural, outcome)

\* The end of item_add: paned goes where child was in parent, the vbox of
\* the item in one of its panes and child in the other.
item_add_pack(st, i, parent, paned, swap) ==
    LET mine  == Mine(paned)
        next  == Next_(paned)
        child == gtk_bin_get_child(st, parent)
        st1 == gtk_container_remove(st, parent, child, TRUE)
        st2 == gtk_container_add(st1, parent, paned)
        st3 == gtk_container_add(st2, IF swap THEN next ELSE mine,
                                 st.items[i].vbox)
    IN IF child = NullId THEN st
       ELSE gtk_container_add(st3, IF swap THEN mine ELSE next, child)

\* A faulty variant: every item gets a window of its own, docked or not.
item_add_floats(st, i, rect, spot) ==
    LET item == st.items[i]
    IN IF ~(/\ item.widget # NullId /\ item.vbox # NullId
            /\ item.paned = NullId /\ item.window = NullId
            /\ item.dock < DOCKS)
       THEN st
       ELSE gtk_container_add(
                [st EXCEPT !.items[i].window = WindowOf(item.widget)],
                WindowBin(item.widget), item.vbox)

item_add(st, i, rect, spot) ==
    LET item == st.items[i]
    IN IF ~(/\ item.widget # NullId /\ item.vbox # NullId
            /\ item.paned = NullId /\ item.window = NullId
            /\ item.dock < DOCKS)
       THEN st
       ELSE IF item.dock < 0
       THEN gtk_container_add(
                [st EXCEPT !.items[i].window = WindowOf(item.widget)],
                WindowBin(item.widget), item.vbox)
       ELSE IF st.docks[item.dock] # NullId
       THEN LET swap  == item_get_next(st, i) = 0
                where == IF swap THEN item_get_prev(st, i) ELSE i
            IN IF swap /\ ~(where # 0 /\ st.items[where].paned = NullId)
               THEN st
               ELSE LET st1 == IF swap THEN item_save_size(st, where, rect, spot)
                               ELSE st
                        parent == item_get_parent(st1, where)
                        paned  == ItemPanedOf(st1.items[where].widget)
                    IN IF parent.c = NullId THEN st1
                       ELSE item_add_pack(
                                paned_new(
                                    [st1 EXCEPT !.items[where].paned = paned],
                                    paned, ~IS_VERTICAL(st1.items[where].dock),
                                    FALSE, st1.items[where].w,
                                    st1.items[where].h),
                                i, parent, paned, swap)
       ELSE LET parent == dock_get_parent(st, item.dock)
                paned  == DockPanedOf(item.dock)
            IN IF parent.c = NullId THEN st
               ELSE item_add_pack(
                        paned_new([st EXCEPT !.docks[item.dock] = paned],
                                  paned, IS_VERTICAL(item.dock),
                                  IS_AFTER(item.dock), item.w, item.h),
                        i, parent, paned, FALSE)


\* A faulty variant: child is not put back where paned was.
item_remove_unpack_drops_child(st, i, parent, paned, swap, held) ==
    LET mine  == Mine(paned)
        next  == Next_(paned)
        child == IF paned = NullId THEN NullId
                 ELSE gtk_bin_get_child(st, IF swap THEN mine ELSE next)
        st1 == gtk_container_remove(st, IF swap THEN next ELSE mine,
                                    st.items[i].vbox, held)
        st2 == gtk_container_remove(st1, IF swap THEN mine ELSE next,
                                    child, TRUE)
    IN IF paned = NullId \/ child = NullId THEN st
       ELSE gtk_container_remove(st2, parent, paned, FALSE)

\* The end of item_remove: the vbox of the item and child leave the panes
\* of paned, paned leaves parent and child takes its place. The vbox is
\* destroyed with its widget unless the caller holds a reference (held).
item_remove_unpack(st, i, parent, paned, swap, held) ==
    LET mine  == Mine(paned)
        next  == Next_(paned)
        child == IF paned = NullId THEN NullId
                 ELSE gtk_bin_get_child(st, IF swap THEN mine ELSE next)
        st1 == gtk_container_remove(st, IF swap THEN next ELSE mine,
                                    st.items[i].vbox, held)
        st2 == gtk_container_remove(st1, IF swap THEN mine ELSE next,
                                    child, TRUE)
        st3 == gtk_container_remove(st2, parent, paned, FALSE)
    IN IF paned = NullId \/ child = NullId THEN st
       ELSE gtk_container_add(st3, parent, child)

item_remove(st, i, rect, spot, held) ==
    LET item == st.items[i]
        st0  == item_save_size(st, i, rect, spot)
    IN IF ~(item.widget # NullId /\ item.vbox # NullId) THEN st
       ELSE IF item.dock < 0
       THEN IF item.window = NullId THEN st0
            ELSE gtk_widget_destroy(
                     gtk_container_remove(st0, Bin(item.window, "bin"),
                                          item.vbox, held),
                     item.window)
       ELSE LET prev == item_get_prev(st0, i)
            IN IF item.paned # NullId \/ prev # 0
               THEN LET swap  == item.paned = NullId
                        where == IF swap THEN prev ELSE i
                    IN IF swap /\ ~(where # 0 /\ st0.items[where].paned # NullId)
                       THEN st0
                       ELSE LET parent == item_get_parent(st0, where)
                            IN IF parent.c = NullId THEN st0
                               ELSE item_remove_unpack(st0, i, parent,
                                        st0.items[where].paned, swap, held)
               ELSE LET parent == dock_get_parent(st0, item.dock)
                    IN IF parent.c = NullId THEN st0
                       ELSE item_remove_unpack(st0, i, parent,
                                st0.docks[item.dock], FALSE, held)

\* g_list_find_custom (items, name, item_by_name): the first Item of that
\* name, or 0.
item_by_name(items, name) ==
    IF \E i \in 1..Len(items) : items[i].name = name
    THEN CHOOSE i \in 1..Len(items) :
           /\ items[i].name = name
           /\ \A j \in 1..(i - 1) : items[j].name # name
    ELSE 0

\* g_list_find_custom (items, widget, item_by_widget).
item_by_widget(items, widget) ==
    IF \E i \in 1..Len(items) : items[i].widget = widget
    THEN CHOOSE i \in 1..Len(items) :
           /\ items[i].widget = widget
           /\ \A j \in 1..(i - 1) : items[j].widget # widget
    ELSE 0

\* A faulty variant: the new Item is recorded in the left bay.
item_new_in_bay(items, name) ==
    Append(items, Item(name, NullId, NullId, NullId, NullId, DOCK_LEFT, -1, -1, 0, 0))

\* item_new: a new Item at the end of items.
item_new(items, name) ==
    Append(items, Item(name, NullId, NullId, NullId, NullId, -1, -1, -1, 0, 0))

\* strlen (name) <= 256 && ! strchr (name, '\n')
MaxNameLen == 256
NameOk(name) ==
    /\ Len(name) <= MaxNameLen
    /\ \A k \in 1..Len(name) : name[k] # "\n"


(***************************************************************************)
(* The layout file: text, as fprintf writes it and as fgets, strchr,       *)
(* strcmp and sscanf read it.                                              *)
(***************************************************************************)
Digits == << "0", "1", "2", "3", "4", "5", "6", "7", "8", "9" >>

\* "%d" of fprintf.
RECURSIVE NatToChars(_)
NatToChars(n) ==
    IF n < 10 THEN << Digits[n + 1] >>
    ELSE NatToChars(n \div 10) \o << Digits[(n % 10) + 1] >>

IntToChars(n) == IF n < 0 THEN << "-" >> \o NatToChars(-n) ELSE NatToChars(n)

IsDigit(c) == \E k \in 1..10 : Digits[k] = c

DigitValue(c) == (CHOOSE k \in 1..10 : Digits[k] = c) - 1

IsSpace(c) == c \in { " ", "\n", "\t", "\r" }

\* The value of the digits of chars from index k on, after the value acc.
RECURSIVE ScanDigits(_, _, _)
ScanDigits(chars, k, acc) ==
    IF k <= Len(chars) /\ IsDigit(chars[k])
    THEN ScanDigits(chars, k + 1, acc * 10 + DigitValue(chars[k]))
    ELSE acc

\* sscanf (chars, "%d", value): white space is skipped, a sign is read, and
\* at least one digit must follow. [ok, n]: the return value was 1, and the
\* integer stored.
sscanf_d(chars) ==
    LET skip == IF \E k \in 1..Len(chars) : ~IsSpace(chars[k])
                THEN CHOOSE k \in 1..Len(chars) :
                       /\ ~IsSpace(chars[k])
                       /\ \A j \in 1..(k - 1) : IsSpace(chars[j])
                ELSE Len(chars) + 1
        signed == skip <= Len(chars) /\ chars[skip] \in { "-", "+" }
        first == IF signed THEN skip + 1 ELSE skip
        ok == first <= Len(chars) /\ IsDigit(chars[first])
        magnitude == ScanDigits(chars, first, 0)
    IN [ok |-> ok,
        n |-> IF ~ok THEN 0
              ELSE IF signed /\ chars[skip] = "-" THEN -magnitude
              ELSE magnitude]

\* The index of the first c in chars, or 0: strchr.
strchr(chars, c) ==
    IF \E k \in 1..Len(chars) : chars[k] = c
    THEN CHOOSE k \in 1..Len(chars) :
           chars[k] = c /\ \A j \in 1..(k - 1) : chars[j] # c
    ELSE 0

\* One record of the file, as layout_save prints it:
\* "item %s\npane %d\nx %d\ny %d\nw %d\nh %d\n".
FormatItem(item) ==
    << "i", "t", "e", "m", " " >> \o item.name \o << "\n" >> \o
    << "p", "a", "n", "e", " " >> \o IntToChars(item.dock) \o << "\n" >> \o
    << "x", " " >> \o IntToChars(item.x) \o << "\n" >> \o
    << "y", " " >> \o IntToChars(item.y) \o << "\n" >> \o
    << "w", " " >> \o IntToChars(item.w) \o << "\n" >> \o
    << "h", " " >> \o IntToChars(item.h) \o << "\n" >>

\* static gchar parse_key[512]
ParseKeySize == 512

\* parse_next from the offset at of the file: fgets reads a line of at most
\* ParseKeySize - 1 characters; the key ends at the first space, the value
\* at the newline. [key, value, null, at]: parse_key, parse_value, whether
\* parse_value is NULL, and the offset after the line.
parse_next(file, at) ==
    IF at > Len(file)
    THEN [key |-> << >>, value |-> << >>, null |-> TRUE, at |-> at]
    ELSE LET rest == SubSeq(file, at, Len(file))
             nl == strchr(rest, "\n")
             len == IF nl # 0 /\ nl <= ParseKeySize - 1 THEN nl
                    ELSE IF Len(rest) <= ParseKeySize - 1 THEN Len(rest)
                    ELSE ParseKeySize - 1
             line == SubSeq(rest, 1, len)
             space == strchr(line, " ")
             after == SubSeq(line, space + 1, Len(line))
             newline == strchr(after, "\n")
         IN IF space = 0
            THEN [key |-> line, value |-> << >>, null |-> TRUE, at |-> at + len]
            ELSE [key |-> SubSeq(line, 1, space - 1),
                  value |-> IF newline # 0 THEN SubSeq(after, 1, newline - 1)
                            ELSE after,
                  null |-> FALSE, at |-> at + len]

\* parse_integer: [ok, n].
parse_integer(parsed, key) ==
    IF ~parsed.null /\ parsed.key = key THEN sscanf_d(parsed.value)
    ELSE [ok |-> FALSE, n |-> 0]

\* parse_string: the value is not NULL and the key is the one asked for.
parse_string(parsed, key) == ~parsed.null /\ parsed.key = key


\* The keys of the five integers of a record, in the order layout_load
\* reads them.
FieldKeys == << << "p", "a", "n", "e" >>, << "x" >>, << "y" >>, << "w" >>, << "h" >> >>

\* The k-th of these fields of item set to n: & item->dock, & item->x, ...
SetField(item, k, n) ==
    CASE k = 1 -> [item EXCEPT !.dock = n]
      [] k = 2 -> [item EXCEPT !.x = n]
      [] k = 3 -> [item EXCEPT !.y = n]
      [] k = 4 -> [item EXCEPT !.w = n]
      [] OTHER -> [item EXCEPT !.h = n]

\* A faulty variant: a field that cannot be read is passed over.
RECURSIVE load_fields_lenient(_, _, _, _)
load_fields_lenient(file, at, item, k) ==
    IF k > Len(FieldKeys) THEN [item |-> item, at |-> at, ok |-> TRUE]
    ELSE LET parsed == parse_next(file, at)
             int == parse_integer(parsed, FieldKeys[k])
         IN IF ~int.ok THEN load_fields_lenient(file, at, item, k + 1)
            ELSE load_fields_lenient(file, parsed.at, SetField(item, k, int.n), k + 1)

\* layout_load: the parse_next and parse_integer calls for the fields k..5
\* of the Item just made. [item, at, ok]: ok is FALSE when the loop breaks.
RECURSIVE load_fields(_, _, _, _)
load_fields(file, at, item, k) ==
    IF k > Len(FieldKeys) THEN [item |-> item, at |-> at, ok |-> TRUE]
    ELSE LET parsed == parse_next(file, at)
             int == parse_integer(parsed, FieldKeys[k])
         IN IF ~int.ok THEN [item |-> item, at |-> parsed.at, ok |-> FALSE]
            ELSE load_fields(file, parsed.at, SetField(item, k, int.n), k + 1)

\* layout_load: the while (1) loop from the offset at of the file.
RECURSIVE load_loop(_, _, _)
load_loop(file, at, items) ==
    LET parsed == parse_next(file, at)
    IN IF ~parse_string(parsed, << "i", "t", "e", "m" >>) THEN items
       ELSE LET made == item_new(items, parsed.value)
                read == load_fields(file, parsed.at, made[Len(made)], 1)
                kept == [made EXCEPT ![Len(made)] = read.item]
            IN IF ~read.ok THEN kept
               ELSE load_loop(file, read.at, kept)

\* A faulty variant: an absent file gives one Item with the defaults.
layout_load_default(st, file) ==
    IF st.items # << >> THEN st
    ELSE IF file = NoFile THEN [st EXCEPT !.items = item_new(<< >>, NameA)]
    ELSE [st EXCEPT !.items = load_loop(file, 1, << >>)]

\* layout_load: nothing is done when items is not empty or the file cannot
\* be opened.
layout_load(st, file) ==
    IF st.items # << >> \/ file = NoFile THEN st
    ELSE [st EXCEPT !.items = load_loop(file, 1, << >>)]

\* layout_save: the for loop from the Item i on. [st, text]: item_save_size
\* updates the attached Items, and text is what was printed.
RECURSIVE save_loop(_, _, _, _, _)
save_loop(st, i, text, rect, spot) ==
    IF i > Len(st.items) THEN [st |-> st, text |-> text]
    ELSE LET st1 == IF st.items[i].widget # NullId
                    THEN item_save_size(st, i, rect, spot)
                    ELSE st
         IN save_loop(st1, i + 1, text \o FormatItem(st1.items[i]), rect, spot)

layout_save(st, rect, spot) == save_loop(st, 1, << >>, rect, spot)

\* layout_cleanup: the for loop from the Item i on. The loop returns at the
\* first Item that has a widget, a vbox or a window; the Items before it
\* are freed by then, and the list is neither freed nor reset.
RECURSIVE cleanup_loop(_, _)
cleanup_loop(items, i) ==
    IF i > Len(items) THEN << >>
    ELSE IF ~(/\ items[i].widget = NullId /\ items[i].vbox = NullId
              /\ items[i].window = NullId)
    THEN items
    ELSE cleanup_loop([items EXCEPT ![i].freed = TRUE], i + 1)

layout_cleanup(st) == [st EXCEPT !.items = cleanup_loop(st.items, 1)]

\* layout_add.
layout_add(st, widget, name, rect, spot) ==
    LET found == item_by_name(st.items, name)
    IN IF ~(st.center # NullId /\ widget # NullId /\ NameOk(name)) THEN st
       ELSE IF found # 0 /\ ~(/\ st.items[found].widget = NullId
                              /\ st.items[found].vbox = NullId
                              /\ st.items[found].window = NullId)
       THEN st
       ELSE LET items == IF found = 0 THEN item_new(st.items, name)
                         ELSE IF st.items[found].dock >= DOCKS
                         THEN [st.items EXCEPT ![found].dock = -1]
                         ELSE st.items
                i == IF found = 0 THEN Len(items) ELSE found
            IN item_add([st EXCEPT !.items =
                            [items EXCEPT ![i].widget = widget,
                                          ![i].vbox = VBoxOf(widget)]],
                        i, rect, spot)

\* The list with its i-th node moved to the end: g_list_remove_link,
\* g_list_concat.
MoveToEnd(items, i) ==
    SubSeq(items, 1, i - 1) \o SubSeq(items, i + 1, Len(items)) \o << items[i] >>

\* A faulty variant: the Item stays where it is in the list.
layout_move_in_place(st, widget, dock, rect, spot) ==
    LET i == item_by_widget(st.items, widget)
    IN IF ~(st.center # NullId /\ widget # NullId /\ dock < DOCKS) THEN st
       ELSE IF i = 0 THEN st
       ELSE IF st.items[i].vbox = NullId THEN st
       ELSE LET vbox == st.items[i].vbox
                st1 == item_remove(st, i, rect, spot, TRUE)
                st2 == [st1 EXCEPT !.items[i].dock = dock]
                st3 == item_add(st2, i, rect, spot)
            IN IF HasParent(st3, vbox) THEN st3
               ELSE gtk_widget_destroy(st3, vbox)

\* layout_move. The reference it holds on the vbox keeps the vbox and the
\* widget alive across item_remove; g_object_unref destroys a vbox that
\* item_add did not put into a container.
layout_move(st, widget, dock, rect, spot) ==
    LET i == item_by_widget(st.items, widget)
    IN IF ~(st.center # NullId /\ widget # NullId /\ dock < DOCKS) THEN st
       ELSE IF i = 0 THEN st
       ELSE IF st.items[i].vbox = NullId THEN st
       ELSE LET vbox == st.items[i].vbox
                st1 == item_remove(st, i, rect, spot, TRUE)
                st2 == [st1 EXCEPT !.items =
                          MoveToEnd([st1.items EXCEPT ![i].dock = dock], i)]
                st3 == item_add(st2, Len(st2.items), rect, spot)
            IN IF HasParent(st3, vbox) THEN st3
               ELSE gtk_widget_destroy(st3, vbox)

\* A faulty variant: a widget that is not found takes the first Item.
layout_remove_any(st, widget, rect, spot) ==
    LET i == item_by_widget(st.items, widget)
    IN IF ~(st.center # NullId /\ widget # NullId) THEN st
       ELSE IF i = 0 /\ st.items = << >> THEN st
       ELSE item_remove(st, IF i = 0 THEN 1 ELSE i, rect, spot, FALSE)

\* A faulty variant: the Item is taken out of the list with its widget.
layout_remove_forgets(st, widget, rect, spot) ==
    LET i == item_by_widget(st.items, widget)
    IN IF ~(st.center # NullId /\ widget # NullId) THEN st
       ELSE IF i = 0 THEN st
       ELSE LET st1 == item_remove(st, i, rect, spot, FALSE)
            IN [st1 EXCEPT !.items = SubSeq(st1.items, 1, i - 1)
                                     \o SubSeq(st1.items, i + 1, Len(st1.items))]

\* layout_remove.
layout_remove(st, widget, rect, spot) ==
    LET i == item_by_widget(st.items, widget)
    IN IF ~(st.center # NullId /\ widget # NullId) THEN st
       ELSE IF i = 0 THEN st
       ELSE item_remove(st, i, rect, spot, FALSE)


(***************************************************************************)
(* The calls into layout.c, from the plugin host, the menu of an attached  *)
(* item and the start and the end of the program.                          *)
(***************************************************************************)
\* The most calls a behaviour makes.
MaxLayoutCalls == 5

\* The allocations GTK reports for a vbox, and the positions for a window.
AllocRects == { << 2, 3 >> }
WindowSpots == { << 5, 6 >> }

\* A detached Item, as a complete record of the file describes it.
Placeholder(name, dock, x, y, w, h) ==
    Item(name, NullId, NullId, NullId, NullId, dock, x, y, w, h)

RECURSIVE FormatItems(_, _)
FormatItems(items, i) ==
    IF i > Len(items) THEN << >>
    ELSE FormatItem(items[i]) \o FormatItems(items, i + 1)

\* Three items in the left bay.
FileThree ==
    FormatItems(<< Placeholder(NameA, DOCK_LEFT, -1, -1, 2, 3),
                   Placeholder(NameB, DOCK_LEFT, -1, -1, 3, 2),
                   Placeholder(NameC, DOCK_LEFT, -1, -1, 4, 1) >>, 1)

\* A pane out of range, a name that occurs twice, a pane under -1.
FileOdd ==
    FormatItems(<< Placeholder(NameA, 7, 0, 0, 2, 3),
                   Placeholder(NameA, DOCK_RIGHT, -1, -1, 0, 0),
                   Placeholder(NameB, -2, 5, 6, 4, 1) >>, 1)

\* FileThree cut off inside its second record, after the line of x.
FileCut ==
    SubSeq(FileThree, 1,
           Len(FormatItem(Placeholder(NameA, DOCK_LEFT, -1, -1, 2, 3)))
           + Len(<< "i", "t", "e", "m", " " >> \o NameB \o << "\n" >>)
           + Len(<< "p", "a", "n", "e", " ", "0", "\n", "x", " ", "-", "1", "\n" >>))

\* The targets chosen in the menu: undock, a horizontal bay before the
\* center and a vertical bay after it.
MoveDocks == { -1, DOCK_LEFT, DOCK_BOTTOM }

\* The layout files found at the start.
LayoutFiles == { NoFile, << >>, FileThree, FileOdd, FileCut }

LayoutNow ==
    LayoutState(l_items, l_docks, l_child, l_center, l_position, l_idle,
                l_crashed, l_pack)

Call(op, widget, name, dock) ==
    [op |-> op, widget |-> widget, name |-> name, dock |-> dock]

\* The call is made and leaves the layout in the state st and the file as
\* text.
LayoutStep(call, st, text) ==
    /\ l_items' = st.items
    /\ l_docks' = st.docks
    /\ l_child' = st.child
    /\ l_center' = st.center
    /\ l_position' = st.position
    /\ l_idle' = st.idle
    /\ l_crashed' = st.crashed
    /\ l_pack' = st.pack
    /\ l_file' = text
    /\ l_last' = call
    /\ l_calls' = l_calls + 1
    /\ UNCHANGED << dockVars, fillVars, rectVars, shadeVars, moreVars >>

\* Some Item of the list was freed: the list is dangling.
Dangling == \E i \in 1..Len(l_items) : l_items[i].freed

\* The host adds the widget of a plugin under the name of the plugin; the
\* widget is not in the layout.
LayoutAdd(widget, name) ==
    /\ l_calls < MaxLayoutCalls
    /\ ~l_crashed
    /\ ~Dangling
    /\ widget.n = name
    /\ \A i \in 1..Len(l_items) : l_items[i].widget # widget
    /\ \E rect \in AllocRects, spot \in WindowSpots :
         \E st \in { layout_add(LayoutNow, widget, name, rect, spot) } :
            LayoutStep(Call("add", widget, name, 0), st, l_file)

\* The host removes the widget of a plugin.
LayoutRemove(widget) ==
    /\ l_calls < MaxLayoutCalls
    /\ ~l_crashed
    /\ ~Dangling
    /\ \E rect \in AllocRects, spot \in WindowSpots :
         \E st \in { layout_remove(LayoutNow, widget, rect, spot) } :
            LayoutStep(Call("remove", widget, widget.n, 0), st, l_file)

\* The menu of an attached item: layout_dock_left, layout_dock_right,
\* layout_dock_top, layout_dock_bottom and layout_undock.
LayoutMove(widget, dock) ==
    /\ l_calls < MaxLayoutCalls
    /\ ~l_crashed
    /\ ~Dangling
    /\ \E i \in 1..Len(l_items) : l_items[i].widget = widget
    /\ \E rect \in AllocRects, spot \in WindowSpots :
         \E st \in { layout_move(LayoutNow, widget, dock, rect, spot) } :
            LayoutStep(Call("move", widget, widget.n, dock), st, l_file)

LayoutSave ==
    /\ l_calls < MaxLayoutCalls
    /\ ~l_crashed
    /\ ~Dangling
    /\ \E rect \in AllocRects, spot \in WindowSpots :
         \E saved \in { layout_save(LayoutNow, rect, spot) } :
            LayoutStep(Call("save", NullId, << >>, 0), saved.st, saved.text)

\* The start of the program: layout_load, called while there are no Items.
LayoutLoad ==
    /\ l_calls < MaxLayoutCalls
    /\ ~l_crashed
    /\ l_last.op \in { "none", "cleanup" }
    /\ \E st \in { layout_load(LayoutNow, l_file) } :
         LayoutStep(Call("load", NullId, << >>, 0), st, l_file)

LayoutCleanup ==
    /\ l_calls < MaxLayoutCalls
    /\ ~l_crashed
    /\ ~Dangling
    /\ \E st \in { layout_cleanup(LayoutNow) } :
         LayoutStep(Call("cleanup", NullId, << >>, 0), st, l_file)

\* The positions a paned takes by itself.
PanedNaturals == { 5 }

\* The main loop has nothing else to do: the idle sources are run.
RestoreSize ==
    /\ l_idle # << >>
    /\ ~l_crashed
    /\ \E rect \in AllocRects, natural \in PanedNaturals,
          outcome \in IdleOutcomes :
         \E st \in { g_main_idle(LayoutNow, l_idle, rect, natural, outcome) } :
            /\ l_items' = st.items
            /\ l_docks' = st.docks
            /\ l_child' = st.child
            /\ l_center' = st.center
            /\ l_position' = st.position
            /\ l_idle' = st.idle
            /\ l_crashed' = st.crashed
            /\ l_pack' = st.pack
            /\ UNCHANGED << l_file, l_last, l_calls >>
            /\ UNCHANGED << dockVars, fillVars, rectVars, shadeVars, moreVars >>

\* No idle source is waiting.
Quiet == l_idle = << >>

LayoutInit ==
    /\ l_items = << >>
    /\ l_docks = [d \in 0..(DOCKS - 1) |-> NullId]
    /\ l_child = [b \in Bins |-> IF b = LayoutBin THEN CenterId ELSE NullId]
    /\ l_center = CenterId
    /\ l_file \in LayoutFiles
    /\ l_last = NoCall
    /\ l_calls = 0
    /\ l_position = [p \in Paneds |-> NoPosition]
    /\ l_idle = << >>
    /\ l_crashed = FALSE
    /\ l_pack = [p \in Paneds |-> << >>]
    /\ DockAtRest(RestLayout) /\ wlist = << "main", "eq", "pl" >>
    /\ FillIdle /\ RectIdle /\ MoreIdle /\ ShadeIdle

\* The host makes its calls one per event, and the main loop comes to
\* idle between two events.
LayoutNext ==
    \/ \E widget \in Widgets, name \in Names :
          Quiet /\ LayoutAdd(widget, name)
    \/ \E widget \in Widgets : Quiet /\ LayoutRemove(widget)
    \/ \E widget \in Widgets, dock \in MoveDocks :
          Quiet /\ LayoutMove(widget, dock)
    \/ Quiet /\ LayoutSave
    \/ Quiet /\ LayoutLoad
    \/ Quiet /\ LayoutCleanup
    \/ RestoreSize

SpecLayout == LayoutInit /\ [][LayoutNext]_vars

(***************************************************************************)
(* The layout when the host makes calls faster than the main loop comes    *)
(* to idle: the idle sources of paned_new wait while calls go on.          *)
(***************************************************************************)
\* Two items in the bays after the center, with sizes to restore.
FileIdle ==
    FormatItems(<< Placeholder(NameA, DOCK_RIGHT, -1, -1, 4, 1),
                   Placeholder(NameB, DOCK_BOTTOM, -1, -1, 2, 4) >>, 1)

IdleFiles == { NoFile, FileIdle }

IdleWidgets == { PluginWidget(NameA, 1), PluginWidget(NameB, 1) }

IdleDocks == { -1, DOCK_RIGHT, DOCK_BOTTOM }

IdleInit ==
    /\ l_items = << >>
    /\ l_docks = [d \in 0..(DOCKS - 1) |-> NullId]
    /\ l_child = [b \in Bins |-> IF b = LayoutBin THEN CenterId ELSE NullId]
    /\ l_center = CenterId
    /\ l_file \in IdleFiles
    /\ l_last = NoCall
    /\ l_calls = 0
    /\ l_position = [p \in Paneds |-> NoPosition]
    /\ l_idle = << >>
    /\ l_crashed = FALSE
    /\ l_pack = [p \in Paneds |-> << >>]
    /\ DockAtRest(RestLayout) /\ wlist = << "main", "eq", "pl" >>
    /\ FillIdle /\ RectIdle /\ MoreIdle /\ ShadeIdle

IdleNext ==
    \/ LayoutLoad
    \/ \E widget \in IdleWidgets, name \in Names : LayoutAdd(widget, name)
    \/ \E widget \in IdleWidgets : LayoutRemove(widget)
    \/ \E widget \in IdleWidgets, dock \in IdleDocks :
          LayoutMove(widget, dock)
    \/ RestoreSize

SpecIdle == IdleInit /\ [][IdleNext]_vars

(***************************************************************************)
(* The layout with items going to all four bays, in any order.             *)
(***************************************************************************)
\* Three items in three bays.
FileBays ==
    FormatItems(<< Placeholder(NameA, DOCK_TOP, -1, -1, 2, 3),
                   Placeholder(NameB, DOCK_RIGHT, -1, -1, 3, 2),
                   Placeholder(NameC, DOCK_BOTTOM, -1, -1, 4, 1) >>, 1)

BayFiles == { NoFile, FileBays }

BayWidgets == { PluginWidget(n, 1) : n \in Names }

BayDocks == (-1)..(DOCKS - 1)

BayInit ==
    /\ l_items = << >>
    /\ l_docks = [d \in 0..(DOCKS - 1) |-> NullId]
    /\ l_child = [b \in Bins |-> IF b = LayoutBin THEN CenterId ELSE NullId]
    /\ l_center = CenterId
    /\ l_file \in BayFiles
    /\ l_last = NoCall
    /\ l_calls = 0
    /\ l_position = [p \in Paneds |-> NoPosition]
    /\ l_idle = << >>
    /\ l_crashed = FALSE
    /\ l_pack = [p \in Paneds |-> << >>]
    /\ DockAtRest(RestLayout) /\ wlist = << "main", "eq", "pl" >>
    /\ FillIdle /\ RectIdle /\ MoreIdle /\ ShadeIdle

BayNext ==
    \/ Quiet /\ LayoutLoad
    \/ \E widget \in BayWidgets, name \in Names :
          Quiet /\ LayoutAdd(widget, name)
    \/ \E widget \in BayWidgets : Quiet /\ LayoutRemove(widget)
    \/ \E widget \in BayWidgets, dock \in BayDocks :
          Quiet /\ LayoutMove(widget, dock)
    \/ RestoreSize

SpecBays == BayInit /\ [][BayNext]_vars

(***************************************************************************)
(* dock_add_window, dock_remove_window and dock_window_set_decorated.      *)
(***************************************************************************)
\* g_list_remove: the list without its first node that holds data.
g_list_remove(list, data) ==
    IF \E i \in 1..Len(list) : list[i] = data
    THEN LET i == CHOOSE k \in 1..Len(list) :
                    /\ list[k] = data
                    /\ \A j \in 1..(k - 1) : list[j] # data
         IN SubSeq(list, 1, i - 1) \o SubSeq(list, i + 1, Len(list))
    ELSE list

dock_add_window(list, window) == Append(list, window)

dock_remove_window(list, window) == g_list_remove(list, window)

\* gtk_window_get_decorated, as the gboolean it returns: 1 or 0.
gtk_window_get_decorated(decorated_of, window) ==
    IF decorated_of[window] THEN 1 ELSE 0

\* gtk_window_set_decorated: any setting other than FALSE decorates.
gtk_window_set_decorated(decorated_of, window, setting) ==
    [decorated_of EXCEPT ![window] = (setting # 0)]

\* A faulty variant: the decoration the window has is not looked at.
dock_window_set_decorated_unchecked(list, decorated_of, window, decorated) ==
    [list |-> IF decorated # 0 THEN dock_remove_window(list, window)
              ELSE dock_add_window(list, window),
     decorated_of |-> gtk_window_set_decorated(decorated_of, window, decorated)]

\* dock_window_set_decorated, with the decorations decorated_of of the
\* windows: the list it returns and the decorations it leaves.
dock_window_set_decorated(list, decorated_of, window, decorated) ==
    IF gtk_window_get_decorated(decorated_of, window) = decorated
    THEN [list |-> list, decorated_of |-> decorated_of]
    ELSE [list |-> IF decorated # 0 THEN dock_remove_window(list, window)
                   ELSE dock_add_window(list, window),
          decorated_of |-> gtk_window_set_decorated(decorated_of, window,
                                                    decorated)]

\* The most calls of dock_window_set_decorated a behaviour makes.
MaxDecoCalls == 4

\* The values a caller passes as the gboolean decorated.
DecoratedArgs == { 0, 1, 2 }

\* The sequences that hold each element of S once.
Orders(S) ==
    { f \in [1..Cardinality(S) -> S] :
        \A i, j \in 1..Cardinality(S) : i # j => f[i] # f[j] }

\* The list holds exactly the undecorated windows, in any order.
DecoInit ==
    /\ dw_decorated \in [Wins -> BOOLEAN]
    /\ dw_list \in Orders({ w \in Wins : ~dw_decorated[w] })
    /\ dw_last = NoDecoCall
    /\ dw_calls = 0
    /\ DockAtRest(RestLayout) /\ wlist = << "main", "eq", "pl" >>
    /\ FillIdle /\ RectIdle /\ ShadeIdle /\ LayoutIdle /\ Mp4Idle
    /\ WriterIdle

\* A caller passes its list and keeps the list returned.
DockWindowSetDecorated(window, decorated) ==
    /\ dw_calls < MaxDecoCalls
    /\ \E r \in { dock_window_set_decorated(dw_list, dw_decorated, window,
                                             decorated) } :
          /\ dw_list' = r.list
          /\ dw_decorated' = r.decorated_of
    /\ dw_last' = [op |-> "set", window |-> window, decorated |-> decorated,
                    list |-> dw_list, was |-> dw_decorated[window]]
    /\ dw_calls' = dw_calls + 1
    /\ UNCHANGED << dockVars, fillVars, rectVars, shadeVars, layoutVars,
                    mp4Vars, writerVars >>

DecoNext ==
    \E window \in Wins, decorated \in DecoratedArgs :
        DockWindowSetDecorated(window, decorated)

SpecDeco == DecoInit /\ [][DecoNext]_vars

\* The number of nodes of the list that hold the window.
TimesIn(list, window) ==
    Cardinality({ i \in 1..Len(list) : list[i] = window })

\* C38: starting from a list that holds exactly the undecorated windows,
\* after any sequence of dock_window_set_decorated calls a window is in
\* the list iff it is undecorated and is there at most once, and a call
\* that does not change the decoration of its window returns the list
\* unchanged.
C38_ListHoldsUndecoratedOnce ==
    /\ \A w \in Wins :
          TimesIn(dw_list, w) = (IF dw_decorated[w] THEN 0 ELSE 1)
    /\ (dw_last.op = "set"
          /\ dw_decorated[dw_last.window] = dw_last.was)
       => dw_list = dw_last.list

\* A window was undecorated, decorated and undecorated again: it is the
\* last of the list; and the last call asked for the decoration the window
\* had.
C38_Witness ==
    /\ dw_calls = 4
    /\ dw_last.op = "set" /\ dw_last.decorated = 2 /\ dw_last.was
    /\ dw_last.window # "pl"
    /\ Len(dw_list) = 2 /\ dw_list[2] = "pl"
    /\ dw_decorated["pl"] = FALSE


(***************************************************************************)
(* Claims about layout.c.                                                  *)
(***************************************************************************)
\* The step is the call op of layout.c.
Called(op) == l_calls' = l_calls + 1 /\ l_last'.op = op

\* Some Item of the name has a live widget attached.
NameAttached(items, name) ==
    \E i \in 1..Len(items) : items[i].name = name /\ items[i].widget # NullId

\* C12: layout_add with a name whose Item already has a live widget attached
\* returns without effect: the Item sequence, with the widget, bay and
\* geometry of every Item, and the pane tree are as before the call.
C12_AddOfAttachedNameHasNoEffect ==
    [][ (Called("add") /\ NameAttached(l_items, l_last'.name))
        => (l_items' = l_items /\ l_docks' = l_docks /\ l_child' = l_child) ]_vars


\* The Item has no widget, no wrapper and no window.
Detached(item) ==
    item.widget = NullId /\ item.vbox = NullId /\ item.window = NullId

\* The wrappers met in the pane tree of a bay, from the pane "mine" of the
\* bay's split container on: a wrapper ends the walk, a split container
\* gives what is in its "mine" and is followed through its "next".
RECURSIVE PaneWalk(_, _, _)
PaneWalk(child, bin, fuel) ==
    LET c == child[bin]
    IN IF fuel = 0 \/ c = NullId THEN << >>
       ELSE IF c.o = "paned"
       THEN << child[Mine(c)] >> \o PaneWalk(child, Next_(c), fuel - 1)
       ELSE << c >>

BayOrder(docks, child, dock) ==
    IF docks[dock] = NullId THEN << >>
    ELSE PaneWalk(child, Mine(docks[dock]), Cardinality(Paneds) + 1)

\* The wrappers of the attached Items of a bay, in the order of the Item
\* sequence.
RECURSIVE BayItems(_, _, _)
BayItems(items, dock, i) ==
    IF i > Len(items) THEN << >>
    ELSE IF items[i].widget # NullId /\ items[i].dock = dock
    THEN << items[i].vbox >> \o BayItems(items, dock, i + 1)
    ELSE BayItems(items, dock, i + 1)

\* The names of the Items, in the order of the sequence.
ItemNames(items) == [i \in 1..Len(items) |-> items[i].name]

\* layout_add for a name whose Item is a placeholder with a recorded bay
\* attaches the widget to that Item, in place and in that bay.
AddToPlaceholder ==
    \A i \in 1..Len(l_items) :
        (/\ Called("add")
         /\ i = item_by_name(l_items, l_last'.name)
         /\ Detached(l_items[i])
         /\ l_items[i].dock \in -1..(DOCKS - 1))
        => /\ ItemNames(l_items') = ItemNames(l_items)
           /\ l_items'[i].widget = l_last'.widget
           /\ l_items'[i].dock = l_items[i].dock
           /\ IF l_items[i].dock >= 0
              THEN /\ l_items'[i].window = NullId
                   /\ BayOrder(l_docks', l_child', l_items[i].dock)
                        = BayItems(l_items', l_items[i].dock, 1)
              ELSE l_child'[WindowBin(l_last'.widget)] = l_items'[i].vbox

\* layout_remove and then layout_add of an attached widget under its name
\* leave the widget in the bay it was in.
AddRemoveAddRestoresBay ==
    \A i \in 1..Len(l_items), rect \in AllocRects, spot \in WindowSpots :
        (l_items[i].widget # NullId /\ ~Dangling)
        => LET widget == l_items[i].widget
               st1 == layout_remove(LayoutNow, widget, rect, spot)
               st2 == layout_add(st1, widget, l_items[i].name, rect, spot)
               j == item_by_widget(st2.items, widget)
           IN j # 0 /\ st2.items[j].dock = l_items[i].dock

\* C13: layout_add for a name whose placeholder Item exists without a
\* widget attaches the widget to that same Item: it keeps its position in
\* the Item sequence and is inserted in its recorded bay, between the
\* attached items of that bay that precede and follow it in the sequence;
\* add, remove, add with the same name restores the same bay.
C13_AddAttachesToPlaceholder ==
    [][AddToPlaceholder]_vars /\ [](AddRemoveAddRestoresBay)


\* C14: layout_add with a name not present in the Item sequence appends
\* one new Item at the end of the sequence with bay -1, position (-1,-1)
\* and size (0,0), and attaches it as a floating window; no existing Item
\* changes.
C14_AddOfNewNameAppendsFloating ==
    [][ (Called("add") /\ item_by_name(l_items, l_last'.name) = 0)
        => /\ Len(l_items') = Len(l_items) + 1
           /\ SubSeq(l_items', 1, Len(l_items)) = l_items
           /\ LET item == l_items'[Len(l_items')]
              IN /\ item.name = l_last'.name
                 /\ item.dock = -1
                 /\ << item.x, item.y >> = << -1, -1 >>
                 /\ << item.w, item.h >> = << 0, 0 >>
                 /\ item.widget = l_last'.widget
                 /\ item.window # NullId
                 /\ item.paned = NullId
                 /\ l_child'[Bin(item.window, "bin")] = item.vbox
           /\ l_docks' = l_docks ]_vars

\* A new name was added after other Items and floats in its window.
C14_Witness ==
    /\ l_last.op = "add"
    /\ Len(l_items) >= 2
    /\ LET item == l_items[Len(l_items)]
       IN /\ item.widget = l_last.widget
          /\ item.name = l_last.name
          /\ item.dock = -1
          /\ << item.x, item.y, item.w, item.h >> = << -1, -1, 0, 0 >>
          /\ item.window # NullId
    /\ \E i \in 1..(Len(l_items) - 1) : l_items[i].widget # NullId


\* The number of Items of the name.
NameCount(items, name) ==
    Cardinality({ i \in 1..Len(items) : items[i].name = name })

\* layout_remove leaves the Item of the widget where it was, detached.
RemoveKeepsItem ==
    \A i \in 1..Len(l_items) :
        (Called("remove") /\ i = item_by_widget(l_items, l_last'.widget))
        => /\ ItemNames(l_items') = ItemNames(l_items)
           /\ l_items'[i].widget = NullId
           /\ l_items'[i].window = NullId
           /\ l_items'[i].dock = l_items[i].dock

\* No call but layout_cleanup takes an Item out of the sequence.
OnlyCleanupLosesItems ==
    (\E name \in Names : NameCount(l_items', name) < NameCount(l_items, name))
    => Called("cleanup")

\* C15: layout_remove never deletes an Item: after it the Item is still in
\* the sequence at the same position with no widget and no floating
\* window, its name and bay unchanged; across any sequence of add, remove
\* and move the sequence never loses an Item, only layout_cleanup does.
C15_RemoveKeepsPlaceholder ==
    [][RemoveKeepsItem /\ OnlyCleanupLosesItems]_vars

\* An item was added, docked left and removed: its Item is still there.
C15_Witness ==
    /\ l_file = NoFile
    /\ l_calls = 3
    /\ l_last.op = "remove"
    /\ Len(l_items) = 1
    /\ l_items[1].name = l_last.name
    /\ l_items[1].dock = DOCK_LEFT
    /\ Detached(l_items[1])


\* The number of split containers of a bay: the one of the bay and the
\* ones its Items own.
BayPaneds(items, docks, dock) ==
    (IF docks[dock] # NullId THEN 1 ELSE 0)
    + Cardinality({ i \in 1..Len(items) :
                      items[i].dock = dock /\ items[i].paned # NullId })

\* A sequence without its i-th element.
Without(seq, i) == SubSeq(seq, 1, i - 1) \o SubSeq(seq, i + 1, Len(seq))

\* What layout_move leaves alone in an Item.
Kept(item) == << item.name, item.dock, item.widget, item.vbox >>

\* C16: layout_move(widget, bay) makes the Item the last element of the
\* Item sequence (hence last in the destination bay), removes exactly one
\* split container from the source bay, and leaves the relative order of
\* all other Items, and of the attached items remaining in the source bay,
\* unchanged.
C16_MoveMakesItemLast ==
    [][ \A i \in 1..Len(l_items) :
          (Called("move") /\ i = item_by_widget(l_items, l_last'.widget))
          => LET from == l_items[i].dock
                 to   == l_last'.dock
                 n    == Len(l_items)
             IN /\ Len(l_items') = n
                /\ l_items'[n].widget = l_last'.widget
                /\ l_items'[n].name = l_items[i].name
                /\ l_items'[n].dock = to
                /\ [j \in 1..(n - 1) |-> Kept(l_items'[j])]
                     = [j \in 1..(n - 1) |-> Kept(Without(l_items, i)[j])]
                /\ to >= 0 =>
                     LET order == BayOrder(l_docks', l_child', to)
                     IN order # << >> /\ order[Len(order)] = l_items'[n].vbox
                /\ (from >= 0 /\ from # to) =>
                     /\ BayPaneds(l_items', l_docks', from)
                          = BayPaneds(l_items, l_docks, from) - 1
                     /\ BayOrder(l_docks', l_child', from)
                          = BayItems(Without(l_items, i), from, 1)
                /\ (from >= 0 /\ from = to) =>
                     /\ BayPaneds(l_items', l_docks', from)
                          = BayPaneds(l_items, l_docks, from)
                     /\ BayOrder(l_docks', l_child', from)
                          = BayItems(Without(l_items, i), from, 1)
                              \o << l_items[i].vbox >> ]_vars

\* The first of three items of the left bay was moved to the bottom bay.
C16_Witness ==
    /\ l_calls = 5
    /\ l_last.op = "move"
    /\ l_last.dock = DOCK_BOTTOM
    /\ ItemNames(l_items) = << NameB, NameC, NameA >>
    /\ \A i \in 1..3 : l_items[i].widget # NullId
    /\ l_items[1].dock = DOCK_LEFT /\ l_items[2].dock = DOCK_LEFT
    /\ l_items[3].dock = DOCK_BOTTOM
    /\ l_items[3].widget = l_last.widget


\* The attached Items of a bay.
Attached(items, dock) ==
    { i \in 1..Len(items) : items[i].widget # NullId /\ items[i].dock = dock }

Bays == 0..(DOCKS - 1)

\* Each bay has as many split containers as attached items: the one of the
\* bay, and one owned by each attached item but the last.
PanedsMatchItems ==
    \A dock \in Bays :
        /\ BayPaneds(l_items, l_docks, dock)
             = Cardinality(Attached(l_items, dock))
        /\ (l_docks[dock] # NullId) <=> (Attached(l_items, dock) # {})
        /\ \A i \in 1..Len(l_items) :
              l_items[i].dock = dock =>
                 ((l_items[i].paned # NullId)
                    <=> (/\ i \in Attached(l_items, dock)
                         /\ \E j \in Attached(l_items, dock) : j > i))

\* An insertion into a bay creates one split container and a removal from
\* a bay removes one; the other bays keep theirs.
OnePanedPerItem ==
    /\ \A i \in 1..Len(l_items') :
          (/\ Called("add")
           /\ l_items'[i].widget = l_last'.widget
           /\ l_items'[i].dock >= 0)
          => \A dock \in Bays :
                BayPaneds(l_items', l_docks', dock)
                  = BayPaneds(l_items, l_docks, dock)
                    + (IF dock = l_items'[i].dock THEN 1 ELSE 0)
    /\ \A i \in 1..Len(l_items) :
          (/\ Called("remove")
           /\ i = item_by_widget(l_items, l_last'.widget)
           /\ l_items[i].dock >= 0)
          => \A dock \in Bays :
                BayPaneds(l_items', l_docks', dock)
                  = BayPaneds(l_items, l_docks, dock)
                    - (IF dock = l_items[i].dock THEN 1 ELSE 0)

\* C17: after any sequence of layout_add, layout_remove and layout_move
\* each bay holds exactly as many split containers as it has attached
\* items (the bay-level container exists iff the bay has at least one
\* attached item, and every attached item of the bay except the last in
\* sequence order owns one); each insertion creates exactly one split
\* container and each removal removes exactly one.
C17_OneSplitContainerPerItem ==
    [](PanedsMatchItems) /\ [][OnePanedPerItem]_vars

\* The middle one of three items of the left bay was removed.
C17_Witness ==
    /\ l_last.op = "remove"
    /\ l_last.name = NameB
    /\ ItemNames(l_items) = << NameA, NameB, NameC >>
    /\ \A i \in 1..3 : l_items[i].dock = DOCK_LEFT
    /\ l_items[1].widget # NullId /\ l_items[3].widget # NullId
    /\ Detached(l_items[2])
    /\ << l_items[2].w, l_items[2].h >> \in AllocRects
    /\ BayPaneds(l_items, l_docks, DOCK_LEFT) = 2


\* The widgets of the pane tree under a bin.
RECURSIVE Descend(_, _, _)
Descend(child, bin, fuel) ==
    LET c == child[bin]
    IN IF fuel = 0 \/ c = NullId THEN {}
       ELSE IF c.o \in { "paned", "dock paned" }
       THEN {c} \cup Descend(child, Mine(c), fuel - 1)
                \cup Descend(child, Next_(c), fuel - 1)
       ELSE {c}

PaneTree == Descend(l_child, LayoutBin, Cardinality(Paneds) + 1)

\* The bins a widget is the child of.
ParentsOf(widget) == { b \in Bins : l_child[b] = widget }

\* C18: after any sequence of layout_add, layout_remove and layout_move,
\* for first, middle and last items of a bay, every split container in the
\* pane tree has both panes occupied, the center widget is still in the
\* tree, and every attached docked item's wrapper is in the tree exactly
\* once.
C18_PaneTreeWellFormed ==
    /\ \A paned \in Paneds :
          IF paned \in PaneTree
          THEN l_child[Mine(paned)] # NullId /\ l_child[Next_(paned)] # NullId
          ELSE l_child[Mine(paned)] = NullId /\ l_child[Next_(paned)] = NullId
    /\ l_center = CenterId
    /\ CenterId \in PaneTree
    /\ Cardinality(ParentsOf(CenterId)) = 1
    /\ \A i \in 1..Len(l_items) :
          (l_items[i].widget # NullId /\ l_items[i].dock >= 0)
          => /\ l_items[i].vbox \in PaneTree
             /\ Cardinality(ParentsOf(l_items[i].vbox)) = 1

\* The last one of three items of the left bay was removed.
C18_Witness ==
    /\ l_last.op = "remove"
    /\ l_last.name = NameC
    /\ ItemNames(l_items) = << NameA, NameB, NameC >>
    /\ \A i \in 1..3 : l_items[i].dock = DOCK_LEFT
    /\ l_items[1].widget # NullId /\ l_items[2].widget # NullId
    /\ Detached(l_items[3])
    /\ << l_items[3].w, l_items[3].h >> \in AllocRects
    /\ Cardinality(PaneTree) = 5


\* The three conditions of an Item.
IsDocked(item) ==
    /\ item.widget # NullId /\ item.vbox # NullId
    /\ item.dock \in Bays
    /\ item.window = NullId
    /\ item.vbox \in PaneTree

IsFloating(item) ==
    /\ item.widget # NullId /\ item.vbox # NullId
    /\ item.dock < 0
    /\ item.window # NullId
    /\ l_child[Bin(item.window, "bin")] = item.vbox
    /\ item.paned = NullId
    /\ item.vbox \notin PaneTree

IsDetached(item) == Detached(item) /\ item.paned = NullId

Conditions(item) ==
    (IF IsDocked(item) THEN {"docked"} ELSE {})
    \cup (IF IsFloating(item) THEN {"floating"} ELSE {})
    \cup (IF IsDetached(item) THEN {"detached"} ELSE {})

\* C19: in every state reached by load, add, remove and move each Item is
\* in exactly one of three conditions: attached and docked in one bay
\* (widget set, bay 0..3, no floating window), attached and floating
\* (widget set, own window, no split container), or detached (no widget,
\* no wrapper, no window).
C19_ExactlyOneCondition ==
    \A i \in 1..Len(l_items) : Cardinality(Conditions(l_items[i])) = 1

\* After a move the sequence holds a docked, a floating and a detached
\* Item.
C19_Witness ==
    /\ l_last.op = "move"
    /\ \E i, j, k \in 1..Len(l_items) :
          /\ IsDocked(l_items[i])
          /\ IsFloating(l_items[j])
          /\ IsDetached(l_items[k])


\* What the layout file records of an Item.
Recorded(item) == << item.name, item.dock, item.x, item.y, item.w, item.h >>

\* The Items are live and record the same as the Items of before, in the
\* same order.
SameRecords(items, before) ==
    /\ Len(items) = Len(before)
    /\ \A i \in 1..Len(items) :
          ~items[i].freed /\ Recorded(items[i]) = Recorded(before[i])

\* C20: layout_save followed by layout_cleanup and layout_load reproduces
\* the Item sequence: the same number of Items, in the same order, each
\* with identical name, bay, x, y, w and h; an empty sequence round-trips
\* to an empty sequence.
C20_SaveCleanupLoadRoundTrip ==
    ~Dangling =>
        \A rect \in AllocRects, spot \in WindowSpots :
            LET saved  == layout_save(LayoutNow, rect, spot)
                ended  == layout_cleanup(saved.st)
                loaded == layout_load(ended, saved.text)
            IN SameRecords(loaded.items, saved.st.items)



(***************************************************************************)
(* layout_load of files with a record that is cut off, lacks a field or    *)
(* has a field that is no integer, at any place in the file.               *)
(***************************************************************************)
\* The complete records a file may start with, the record that is broken
\* and the complete record that may follow it.
GoodRecords ==
    << Placeholder(NameA, DOCK_LEFT, -1, -1, 2, 3),
       Placeholder(NameB, DOCK_TOP, 5, 6, 3, 2) >>
BrokenRecord == Placeholder(NameC, DOCK_RIGHT, 0, 7, 4, 1)
LaterRecord == Placeholder(<< "e" >>, DOCK_BOTTOM, -1, -1, 1, 1)

\* The line of the item and the line of the k-th field of a record.
ItemLine(item) == << "i", "t", "e", "m", " " >> \o item.name \o << "\n" >>

FieldValue(item, k) ==
    CASE k = 1 -> item.dock
      [] k = 2 -> item.x
      [] k = 3 -> item.y
      [] k = 4 -> item.w
      [] OTHER -> item.h

FieldLine(item, k) ==
    FieldKeys[k] \o << " " >> \o IntToChars(FieldValue(item, k)) \o << "\n" >>

RECURSIVE FieldLines(_, _, _)
FieldLines(item, from, to) ==
    IF from > to THEN << >>
    ELSE FieldLine(item, from) \o FieldLines(item, from + 1, to)

\* The ways the k-th field of the broken record is wrong: the record ends
\* before it, its line is left out, its value is no integer, its line has
\* no value.
BreakKinds == { "cut", "missing", "garbled", "bare" }

BrokenText(k, kind) ==
    ItemLine(BrokenRecord) \o FieldLines(BrokenRecord, 1, k - 1) \o
    CASE kind = "cut" -> << >>
      [] kind = "missing" -> FieldLines(BrokenRecord, k + 1, Len(FieldKeys))
      [] kind = "garbled" ->
           FieldKeys[k] \o << " ", "q", "\n" >>
           \o FieldLines(BrokenRecord, k + 1, Len(FieldKeys))
      [] OTHER ->
           FieldKeys[k] \o << "\n" >>
           \o FieldLines(BrokenRecord, k + 1, Len(FieldKeys))

\* A file: good complete records, the record broken at its k-th field, and
\* later complete records.
LoadCases ==
    [good : 0..Len(GoodRecords), k : 1..Len(FieldKeys), kind : BreakKinds,
     later : 0..1]

CaseFile(c) ==
    FormatItems(SubSeq(GoodRecords, 1, c.good), 1)
    \o BrokenText(c.k, c.kind)
    \o (IF c.later = 1 THEN FormatItem(LaterRecord) ELSE << >>)

LoadFiles == { CaseFile(c) : c \in LoadCases }

LoadInit ==
    /\ l_items = << >>
    /\ l_docks = [d \in 0..(DOCKS - 1) |-> NullId]
    /\ l_child = [b \in Bins |-> IF b = LayoutBin THEN CenterId ELSE NullId]
    /\ l_center = CenterId
    /\ l_file \in LoadFiles
    /\ l_last = NoCall
    /\ l_calls = 0
    /\ l_position = [p \in Paneds |-> NoPosition]
    /\ l_idle = << >>
    /\ l_crashed = FALSE
    /\ l_pack = [p \in Paneds |-> << >>]
    /\ DockAtRest(RestLayout) /\ wlist = << "main", "eq", "pl" >>
    /\ FillIdle /\ RectIdle /\ MoreIdle /\ ShadeIdle

\* The start and the end of the program, again and again.
LoadNext ==
    \/ LayoutLoad
    \/ LayoutSave
    \/ LayoutCleanup

SpecLoad == LoadInit /\ [][LoadNext]_vars

\* The records of the Items.
Records(items) == [i \in 1..Len(items) |-> Recorded(items[i])]

\* The step is layout_load, with no Items yet, of the file of the case c.
Loads(c) == Called("load") /\ l_items = << >> /\ l_file = CaseFile(c)

\* C21: layout_load of a file whose last record is incomplete (an item
\* line followed by fewer than the five fields pane, x, y, w, h) produces
\* no Item for that incomplete record: the resulting sequence contains
\* exactly the complete records that precede it.
C21_IncompleteLastRecordDropped ==
    [][ \A c \in LoadCases :
          (Loads(c) /\ c.later = 0 /\ c.kind \in { "cut", "missing" })
          => Records(l_items') = Records(SubSeq(GoodRecords, 1, c.good)) ]_vars

\* C22: layout_load stops at the first record that is missing or has a
\* malformed required field: every complete record before it is loaded
\* unchanged and in file order, and no record after it is loaded, wherever
\* in the file the malformed record is.
C22_LoadStopsAtFirstBadRecord ==
    [][ \A c \in LoadCases :
          Loads(c)
          => /\ Len(l_items') >= c.good
             /\ Records(SubSeq(l_items', 1, c.good))
                  = Records(SubSeq(GoodRecords, 1, c.good))
             /\ \A i \in 1..Len(l_items') :
                   /\ l_items'[i].name # LaterRecord.name
                   /\ i > c.good => l_items'[i].name = BrokenRecord.name
             /\ Len(l_items') <= c.good + 1 ]_vars

\* A file of two complete records, a record without its w and a complete
\* record after it was loaded.
C22_Witness ==
    /\ l_last.op = "load"
    /\ l_file = CaseFile([good |-> 2, k |-> 4, kind |-> "missing", later |-> 1])
    /\ Len(l_items) >= 2
    /\ Records(SubSeq(l_items, 1, 2)) = Records(GoodRecords)


\* C23: no two Items in the sequence ever have the same name, after any
\* sequence of layout_load (of any file), layout_add, layout_remove and
\* layout_move.
C23_NamesAreUnique ==
    \A i, j \in 1..Len(l_items) :
        l_items[i].name = l_items[j].name => i = j


\* C24: every record written by layout_save has a pane value in
\* {-1, 0, 1, 2, 3}, after any sequence of layout_load (of any file),
\* layout_add, layout_remove and layout_move. The records written are
\* those of the Items, one for each in sequence order.
C24_SavedPaneInRange ==
    [][ Called("save")
        => /\ l_file' = FormatItems(l_items', 1)
           /\ \A i \in 1..Len(l_items') :
                 l_items'[i].dock \in -1..(DOCKS - 1) ]_vars


C26_CleanupAbortsWithoutEffect ==
    [][ Called("cleanup")
        => IF \E i \in 1..Len(l_items) : l_items[i].widget # NullId
           THEN l_items' = l_items
           ELSE l_items' = << >> ]_vars


\* C27: layout_load with the layout file absent is a no-op: the Item
\* sequence stays empty, and a following layout_add behaves as for a new
\* name: one Item with the defaults, floating in its window.
C27_LoadOfAbsentFileIsNoOp ==
    [][ /\ (Called("load") /\ l_file = NoFile /\ l_items = << >>)
           => /\ l_items' = << >>
              /\ l_docks' = l_docks
              /\ l_child' = l_child
              /\ l_center' = l_center
              /\ l_file' = NoFile
        /\ (/\ l_last.op = "load" /\ l_file = NoFile /\ l_items = << >>
            /\ Called("add"))
           => /\ Len(l_items') = 1
              /\ Recorded(l_items'[1]) = << l_last'.name, -1, -1, -1, 0, 0 >>
              /\ l_items'[1].widget = l_last'.widget
              /\ IsFloating(l_items[1])' ]_vars

\* layout_load ran with no file and no Items.
C27_Witness ==
    /\ l_calls = 1
    /\ l_last.op = "load"
    /\ l_file = NoFile
    /\ l_items = << >>


(***************************************************************************)
(* The idle sources of paned_new.                                          *)
(***************************************************************************)
\* The step is an idle turn of the main loop with sources waiting.
IdleTurn == l_calls' = l_calls /\ l_idle # << >>

\* The position restore_size_cb leaves for the data d, from the position
\* before it.
FixedPosition(d, rect, natural) ==
    LET before == IF l_position[d.paned] = NoPosition THEN natural
                  ELSE l_position[d.paned]
        fixed == before - (IF d.vertical THEN d.h - rect[2]
                           ELSE d.w - rect[1])
    IN IF fixed < 0 THEN NoPosition ELSE fixed

\* The idle turn has run the source of d: the position of its paned is
\* fixed.
FixRan(d) ==
    \E rect \in AllocRects, natural \in PanedNaturals :
       l_position'[d.paned] = FixedPosition(d, rect, natural)

\* C28: each position fix scheduled by paned_new runs exactly once: the
\* first idle turn after it was scheduled runs it, which fixes the position
\* of its paned and frees its data, and no source is left to run again.
C28_EachFixRunsExactlyOnce ==
    [][ IdleTurn
        => /\ \A k \in 1..Len(l_idle) : FixRan(l_idle[k])
           /\ l_idle' = << >>
           /\ ~l_crashed' ]_vars

\* The same for the sources whose paned is still there when they run.
LiveFixRunsExactlyOnce ==
    [][ (IdleTurn /\ \A k \in 1..Len(l_idle) : ~l_idle[k].dangling)
        => /\ \A k \in 1..Len(l_idle) : FixRan(l_idle[k])
           /\ l_idle' = << >>
           /\ ~l_crashed' ]_vars


(***************************************************************************)
(* The sides of the paned of a bay.                                        *)
(***************************************************************************)
\* The pane of the paned of a bay at the outer edge of the window.
OuterPane(dock) == IF dock \in { DOCK_LEFT, DOCK_TOP } THEN 1 ELSE 2

\* What is under the pane number k of the paned.
Under(paned, k) ==
    Descend(l_child, Bin(paned, l_pack[paned][k]), Cardinality(Paneds) + 1)

\* The wrappers of the attached Items of the bays other than dock.
OtherBayItems(dock) ==
    { l_items[i].vbox : i \in { j \in 1..Len(l_items) :
                                  /\ l_items[j].widget # NullId
                                  /\ l_items[j].dock >= 0
                                  /\ l_items[j].dock # dock } }

\* C33: for every bay, the items of the bay are on the outer side of the
\* paned of the bay, the first pane for LEFT and TOP and the second for
\* RIGHT and BOTTOM, and the center and the other bays are on the inner
\* side or around the paned, in whatever order the bays were filled.
C33_BayItemsOnOuterSide ==
    \A dock \in Bays :
        l_docks[dock] # NullId =>
            LET paned == l_docks[dock]
                outer == OuterPane(dock)
            IN /\ l_pack[paned] # << >>
               /\ \A i \in Attached(l_items, dock) :
                     l_items[i].vbox \in Under(paned, outer)
               /\ CenterId \notin Under(paned, outer)
               /\ Under(paned, outer) \cap OtherBayItems(dock) = {}
               /\ \A other \in Bays :
                     l_docks[other] \notin Under(paned, outer)
               /\ CenterId \in Under(paned, 3 - outer)
               /\ \A other \in Bays \ { dock } :
                     l_docks[other] # NullId =>
                        \/ l_docks[other] \in Under(paned, 3 - outer)
                        \/ paned \in Under(l_docks[other],
                                            3 - OuterPane(other))

\* Three bays have an item each, the left one filled last and the right
\* one before the bottom one: the paned of the bottom bay is in the second
\* pane of the one of the left bay and in the first pane of the one of the
\* right bay.
C33_Witness ==
    /\ \A dock \in { DOCK_LEFT, DOCK_RIGHT, DOCK_BOTTOM } :
          l_docks[dock] # NullId
    /\ l_last.op = "move" /\ l_last.dock = DOCK_LEFT
    /\ l_docks[DOCK_BOTTOM] \in Under(l_docks[DOCK_LEFT], 2)
    /\ l_docks[DOCK_BOTTOM] \in Under(l_docks[DOCK_RIGHT], 1)


\* C37: whenever restore_size_cb runs, the paned and the pane it was
\* scheduled for still exist: no layout_remove or layout_move made after
\* the layout_add or layout_move that scheduled it, and before the main
\* loop comes to idle, lets it run on a paned that was removed from the
\* pane tree.
C37_FixRunsOnLivePaned ==
    [][ IdleTurn
        => \A k \in 1..Len(l_idle) :
              /\ ~l_idle[k].dangling
              /\ l_idle[k].paned \in PaneTree ]_vars

(***************************************************************************)
(* The mp4 plugin: mp4_stop, mp4_pause and mp4_seek, called by one thread, *)
(* and the decode loop of my_decode_mp4 or my_decode_aac, run by the       *)
(* playback thread.  What a thread does between g_mutex_lock (seek_mutex)  *)
(* and the g_mutex_unlock or g_cond_wait that lets the mutex go is one     *)
(* step.  g_cond_wait returns only after a g_cond_signal.                  *)
(***************************************************************************)
\* What the threads share, and where each of them is.
Mp4State ==
    [playing |-> m_playing, pause_flag |-> m_pause_flag,
     seek_value |-> m_seek_value, paused |-> m_paused,
     sampleID |-> m_sampleID, dec |-> m_dec, ctl |-> m_ctl]

\* g_cond_signal (seek_cond) by a thread: the other thread, when it waits,
\* is woken.
g_cond_signal(st, by) ==
    IF by = "ctl"
    THEN [st EXCEPT !.dec = IF @ = "wait" THEN "woken" ELSE @]
    ELSE [st EXCEPT !.ctl = IF @ = "wait" THEN "woken" ELSE @]

\* g_cond_wait (seek_cond, seek_mutex) by a thread.
g_cond_wait(st, by) ==
    IF by = "ctl" THEN [st EXCEPT !.ctl = "wait"]
    ELSE [st EXCEPT !.dec = "wait"]

\* A faulty variant: the decoder is not signalled.
mp4_stop_silent(st) ==
    IF st.playing
    THEN [st EXCEPT !.playing = FALSE, !.ctl = "join"]
    ELSE [st EXCEPT !.ctl = "idle"]

\* mp4_stop from g_mutex_lock to g_mutex_unlock.
mp4_stop(st) ==
    IF st.playing
    THEN [g_cond_signal([st EXCEPT !.playing = FALSE], "ctl")
            EXCEPT !.ctl = "join"]
    ELSE [st EXCEPT !.ctl = "idle"]

\* mp4_pause from g_mutex_lock to g_cond_wait or g_mutex_unlock.
mp4_pause(st, p) ==
    IF st.playing
    THEN g_cond_wait(g_cond_signal([st EXCEPT !.pause_flag = (p # 0)],
                                   "ctl"), "ctl")
    ELSE [st EXCEPT !.ctl = "idle"]

\* mp4_seek from g_mutex_lock to g_cond_wait or g_mutex_unlock.
mp4_seek(st, time) ==
    IF st.playing
    THEN g_cond_wait(g_cond_signal([st EXCEPT !.seek_value = time], "ctl"),
                     "ctl")
    ELSE [st EXCEPT !.ctl = "idle"]

\* samplerate and framesize of the stream, and its number of samples.
Samplerate == 4

Framesize == 3

NumSamples == 3

\* The sample a seek to seek_value goes to in my_decode_mp4; my_decode_aac
\* stays where it is.
SeekSample(file, st) ==
    IF file = "mp4" THEN (st.seek_value * Samplerate) \div (Framesize - 1)
    ELSE st.sampleID

\* The decode loop from g_mutex_lock to g_cond_wait or g_mutex_unlock.
decode_locked(file, st) ==
    LET a == IF st.seek_value >= 0
             THEN g_cond_signal([st EXCEPT !.sampleID = SeekSample(file, st),
                                           !.seek_value = -1], "dec")
             ELSE st
        b == IF a.pause_flag # a.paused
             THEN g_cond_signal([a EXCEPT !.paused = a.pause_flag], "dec")
             ELSE a
    IN IF b.paused THEN g_cond_wait(b, "dec")
       ELSE [b EXCEPT !.dec = "read"]

\* The most calls the calling thread makes.
MaxMp4Calls == 3

\* The files played, the values passed as p and the times sought.
Mp4Files == { "mp4", "aac", "http_aac" }

PauseArgs == { 0, 1 }

SeekTimes == { 0, 1 }

Mp4Ops ==
    { [op |-> "stop", arg |-> 0, dec |-> "none"] }
    \cup { [op |-> "pause", arg |-> p, dec |-> "none"] : p \in PauseArgs }
    \cup { [op |-> "seek", arg |-> t, dec |-> "none"] : t \in SeekTimes }

\* mp4_play has set seek_value, pause_flag and playing, and the decoder has
\* opened the audio and is about to test playback->playing.
Mp4Init ==
    /\ m_file \in Mp4Files
    /\ m_playing = TRUE
    /\ m_pause_flag = FALSE
    /\ m_seek_value = -1
    /\ m_paused = FALSE
    /\ m_sampleID = 1
    /\ m_dec = "loop"
    /\ m_ctl = "idle"
    /\ m_op = NoMp4Call
    /\ m_calls = 0
    /\ m_passed = 0
    /\ m_stopped = FALSE
    /\ DockAtRest(RestLayout) /\ wlist = << "main", "eq", "pl" >>
    /\ FillIdle /\ RectIdle /\ ShadeIdle /\ LayoutIdle /\ DecoIdle
    /\ WriterIdle

Mp4Others == << dockVars, fillVars, rectVars, shadeVars, layoutVars,
                decoVars, writerVars >>

\* The shared state and the places of the threads become those of st.
Mp4Becomes(st) ==
    /\ m_playing' = st.playing
    /\ m_pause_flag' = st.pause_flag
    /\ m_seek_value' = st.seek_value
    /\ m_paused' = st.paused
    /\ m_sampleID' = st.sampleID
    /\ m_dec' = st.dec
    /\ m_ctl' = st.ctl

\* The calling thread enters mp4_stop, mp4_pause or mp4_seek.
Mp4Call(call) ==
    /\ m_ctl = "idle"
    /\ m_calls < MaxMp4Calls
    /\ m_ctl' = "lock"
    /\ m_op' = call
    /\ m_calls' = m_calls + 1
    /\ UNCHANGED << m_file, m_playing, m_pause_flag, m_seek_value, m_paused,
                    m_sampleID, m_dec, m_passed, m_stopped, Mp4Others >>

\* The calling thread has the mutex.
Mp4Locked ==
    /\ m_ctl = "lock"
    /\ Mp4Becomes(CASE m_op.op = "stop" -> mp4_stop(Mp4State)
                    [] m_op.op = "pause" -> mp4_pause(Mp4State, m_op.arg)
                    [] OTHER -> mp4_seek(Mp4State, m_op.arg))
    /\ m_op' = [m_op EXCEPT !.dec = m_dec]
    /\ m_stopped' = (m_stopped \/ (m_op.op = "stop" /\ ~m_playing))
    /\ UNCHANGED << m_file, m_calls, m_passed, Mp4Others >>

\* g_cond_wait has returned to mp4_pause or mp4_seek, which unlocks the
\* mutex and returns.
Mp4Woken ==
    /\ m_ctl = "woken"
    /\ m_ctl' = "idle"
    /\ UNCHANGED << m_file, m_playing, m_pause_flag, m_seek_value, m_paused,
                    m_sampleID, m_dec, m_op, m_calls, m_passed, m_stopped,
                    Mp4Others >>

\* g_thread_join returns to mp4_stop once the playback thread has ended.
Mp4Joined ==
    /\ m_ctl = "join"
    /\ m_dec = "done"
    /\ m_ctl' = "idle"
    /\ m_stopped' = TRUE
    /\ UNCHANGED << m_file, m_playing, m_pause_flag, m_seek_value, m_paused,
                    m_sampleID, m_dec, m_op, m_calls, m_passed, Mp4Others >>

\* buffervalid > 0 of my_decode_aac: frames of the stream are left.
BufferValid == m_sampleID < NumSamples

\* The test of the while loop.
DecodeLoop ==
    /\ m_dec = "loop"
    /\ m_dec' = IF m_playing /\ (m_file = "mp4" \/ BufferValid)
                THEN "lock" ELSE "exit"
    /\ UNCHANGED << m_file, m_playing, m_pause_flag, m_seek_value, m_paused,
                    m_sampleID, m_ctl, m_op, m_calls, m_passed, m_stopped,
                    Mp4Others >>

\* The decoder has the mutex.
DecodeLocked ==
    /\ m_dec = "lock"
    /\ Mp4Becomes(decode_locked(m_file, Mp4State))
    /\ UNCHANGED << m_file, m_op, m_calls, m_passed, m_stopped, Mp4Others >>

\* g_cond_wait has returned to the decoder, which unlocks the mutex and
\* continues.
DecodeWoken ==
    /\ m_dec = "woken"
    /\ m_dec' = "loop"
    /\ UNCHANGED << m_file, m_playing, m_pause_flag, m_seek_value, m_paused,
                    m_sampleID, m_ctl, m_op, m_calls, m_passed, m_stopped,
                    Mp4Others >>

\* What reading and decoding a frame can come to.
ReadOutcomes == { "audio", "read_error", "decode_error", "nothing",
                  "underrun" }

\* The rest of the body of the loop of my_decode_mp4: the end of the file,
\* a frame read, decoded and passed on, or an error.
DecodeMp4(outcome) ==
    /\ m_dec = "read"
    /\ m_file = "mp4"
    /\ outcome \in { "audio", "read_error", "decode_error" }
    /\ IF m_sampleID >= NumSamples
       THEN /\ m_playing' = FALSE
            /\ m_dec' = "done"
            /\ UNCHANGED << m_sampleID, m_passed >>
       ELSE /\ m_sampleID' = m_sampleID + 1
            /\ m_dec' = IF outcome = "audio" THEN "loop" ELSE "done"
            /\ m_passed' = IF outcome = "audio" THEN m_passed + 1
                           ELSE m_passed
            /\ UNCHANGED m_playing
    /\ UNCHANGED << m_file, m_pause_flag, m_seek_value, m_paused, m_ctl,
                    m_op, m_calls, m_stopped, Mp4Others >>

\* The rest of the body of the loop of my_decode_aac: a frame is used, and
\* is passed on, or gives nothing, or a remote stream has run dry.
DecodeAac(outcome) ==
    /\ m_dec = "read"
    /\ m_file # "mp4"
    /\ outcome \in { "audio", "nothing", "underrun" }
    /\ outcome = "underrun" => m_file = "http_aac"
    /\ m_sampleID' = m_sampleID + 1
    /\ m_dec' = IF outcome = "underrun" THEN "exit" ELSE "loop"
    /\ m_passed' = IF outcome = "audio" THEN m_passed + 1 ELSE m_passed
    /\ UNCHANGED << m_file, m_playing, m_pause_flag, m_seek_value, m_paused,
                    m_ctl, m_op, m_calls, m_stopped, Mp4Others >>

\* After the loop: my_decode_aac clears playback->playing, my_decode_mp4
\* does not.
DecodeExit ==
    /\ m_dec = "exit"
    /\ m_dec' = "done"
    /\ m_playing' = IF m_file = "mp4" THEN m_playing ELSE FALSE
    /\ UNCHANGED << m_file, m_pause_flag, m_seek_value, m_paused,
                    m_sampleID, m_ctl, m_op, m_calls, m_passed, m_stopped,
                    Mp4Others >>

\* The steps of the calling thread inside a call.
Mp4Caller == Mp4Locked \/ Mp4Woken \/ Mp4Joined

\* The steps of the decoder thread.
Mp4Decoder ==
    \/ DecodeLoop
    \/ DecodeLocked
    \/ DecodeWoken
    \/ \E outcome \in ReadOutcomes : DecodeMp4(outcome)
    \/ \E outcome \in ReadOutcomes : DecodeAac(outcome)
    \/ DecodeExit

Mp4Next ==
    \/ \E call \in Mp4Ops : Mp4Call(call)
    \/ Mp4Caller
    \/ Mp4Decoder

SpecMp4 == Mp4Init /\ [][Mp4Next]_vars

\* Both threads keep being scheduled.
SpecMp4Live ==
    Mp4Init /\ [][Mp4Next]_vars /\ WF_vars(Mp4Caller) /\ WF_vars(Mp4Decoder)

\* The calling thread is inside a call of op that found playback running.
InCall(op) == m_ctl = "lock" /\ m_op.op = op /\ m_playing

\* C34: every mp4_pause call made while playback is running eventually
\* returns, given the decoder thread keeps being scheduled, also when the
\* state asked for is the one the decoder is in.
C34_PauseReturns == InCall("pause") ~> (m_ctl = "idle")

\* C35: every mp4_seek call made while playback is running eventually
\* returns, also when the decoder reaches the end of the stream or a read
\* or decode error at the same time.
C35_SeekReturns == InCall("seek") ~> (m_ctl = "idle")

DigitChars == << "0", "1", "2", "3", "4", "5", "6", "7", "8", "9" >>

\* What sprintf makes of a %d for a count that is not negative.
RECURSIVE Decimal(_)
Decimal(n) ==
    IF n < 10 THEN << DigitChars[n + 1] >>
    ELSE Decimal(n \div 10) \o << DigitChars[(n % 10) + 1] >>

\* The name the sprintf of the loop makes for a count.
AltName(filename, count) ==
    LET extension == strchr(filename, ".")
    IN IF extension = 0
       THEN filename \o << "-" >> \o Decimal(count)
       ELSE SubSeq(filename, 1, extension - 1) \o << "-" >>
            \o Decimal(count)
            \o SubSeq(filename, extension, Len(filename))

\* The bytes of scratch, and the bytes sprintf writes for a name with its
\* terminator.
ScratchSize(filename) == Len(filename) + 2

Written(name) == Len(name) + 1

\* The bound of the loop: count < 100.
MaxCount == 100

\* What a sprintf that writes past the end of scratch can come to: the
\* bytes land where nothing reads them, they land on the low bytes of
\* count, or the program is ended.
OverflowOutcomes == { "spared", "clobbered", "ended" }

\* The code of the character of a digit.
DigitCode(d) == 48 + d

\* count once the bytes past the end of scratch have landed on it: the
\* terminator alone after a name with one digit, the last digit and the
\* terminator after a name with two.
Clobbered(count) ==
    IF count < 10 THEN (count \div 256) * 256
    ELSE (count \div 65536) * 65536 + DigitCode(count % 10)

\* The filenames safe_create is called with.
WriterNames ==
    { << "a" >>,
      << "a", ".", "w" >>,
      << "a", ".", "b", ".", "w" >>,
      << "d", ".", "e", "/", "a", ".", "w" >> }

\* How many of the first alternative names exist, and which of them does
\* not (0: none).
TakenCounts == { 0, 1, 2, 9, 10, 11, 98, 99 }

Holes == { 0, 1, 2, 10 }

WriterInit ==
    /\ fw_filename \in WriterNames
    /\ \E first \in BOOLEAN, taken \in TakenCounts, hole \in Holes :
          fw_exists = (IF first THEN { fw_filename } ELSE { })
                      \cup { AltName(fw_filename, n) :
                               n \in (1..taken) \ { hole } }
    /\ fw_pc = "call"
    /\ fw_count = 0
    /\ fw_scratch = NoPath
    /\ fw_written = 0
    /\ fw_opened = NoPath
    /\ fw_result = "none"
    /\ DockAtRest(RestLayout) /\ wlist = << "main", "eq", "pl" >>
    /\ FillIdle /\ RectIdle /\ ShadeIdle /\ LayoutIdle /\ DecoIdle
    /\ Mp4Idle

WriterOthers == << dockVars, fillVars, rectVars, shadeVars, layoutVars,
                   decoVars, mp4Vars >>

\* aud_vfs_file_test (path, G_FILE_TEST_EXISTS)
aud_vfs_file_test(path) == path \in fw_exists

\* The test of filename itself, and the start of the loop.
SafeCreateFirst ==
    /\ fw_pc = "call"
    /\ IF ~aud_vfs_file_test(fw_filename)
       THEN /\ fw_opened' = fw_filename
            /\ fw_result' = "file"
            /\ fw_pc' = "returned"
            /\ UNCHANGED fw_count
       ELSE /\ fw_count' = 1
            /\ fw_pc' = "loop"
            /\ UNCHANGED << fw_opened, fw_result >>
    /\ UNCHANGED << fw_filename, fw_exists, fw_scratch, fw_written,
                    WriterOthers >>

\* One pass of the loop: the sprintf, what comes of it when it writes past
\* the end of scratch, and the test of the name made.
SafeCreateTry(outcome) ==
    /\ fw_pc = "loop"
    /\ fw_count < MaxCount
    /\ LET name == AltName(fw_filename, fw_count)
           fits == Written(name) <= ScratchSize(fw_filename)
           count == IF ~fits /\ outcome = "clobbered"
                    THEN Clobbered(fw_count)
                    ELSE fw_count
       IN /\ fits => (outcome = "spared")
          /\ fw_scratch' = name
          /\ fw_written' = Written(name)
          /\ IF ~fits /\ outcome = "ended"
             THEN /\ fw_pc' = "ended"
                  /\ UNCHANGED << fw_count, fw_opened, fw_result >>
             ELSE IF ~aud_vfs_file_test(name)
             THEN /\ fw_opened' = name
                  /\ fw_result' = "file"
                  /\ fw_pc' = "returned"
                  /\ fw_count' = count
             ELSE /\ fw_count' = count + 1
                  /\ UNCHANGED << fw_pc, fw_opened, fw_result >>
    /\ UNCHANGED << fw_filename, fw_exists, WriterOthers >>

\* The loop has ended: return NULL.
SafeCreateNull ==
    /\ fw_pc = "loop"
    /\ fw_count >= MaxCount
    /\ fw_result' = "NULL"
    /\ fw_pc' = "returned"
    /\ UNCHANGED << fw_filename, fw_exists, fw_count, fw_scratch,
                    fw_written, fw_opened, WriterOthers >>

WriterNext ==
    \/ SafeCreateFirst
    \/ \E outcome \in OverflowOutcomes : SafeCreateTry(outcome)
    \/ SafeCreateNull

SpecWriter == WriterInit /\ [][WriterNext]_vars

\* The place of the "." that starts the extension of a name: the last one
\* of its last component, or 0 when that has none.
ExtensionOf(name) ==
    LET dots == { i \in 1..Len(name) :
                    /\ name[i] = "."
                    /\ \A j \in i..Len(name) : name[j] # "/" }
    IN IF dots = { } THEN 0
       ELSE CHOOSE i \in dots : \A j \in dots : j <= i

\* The name with -n inserted before its extension.
Inserted(name, n) ==
    IF ExtensionOf(name) = 0 THEN name \o << "-" >> \o Decimal(n)
    ELSE SubSeq(name, 1, ExtensionOf(name) - 1) \o << "-" >> \o Decimal(n)
         \o SubSeq(name, ExtensionOf(name), Len(name))

\* The candidates in their order: filename, then -1 .. -99 inserted.
Candidate(n) == IF n = 0 THEN fw_filename ELSE Inserted(fw_filename, n)

FreeCandidates == { n \in 0..(MaxCount - 1) : Candidate(n) \notin fw_exists }

\* C39: safe_create never opens a path that exists; once it is over it has
\* opened the first path that does not exist among filename and filename
\* with -1 .. -99 inserted before the extension, or has returned NULL when
\* all 100 exist.
C39_OpensFirstFreeCandidate ==
    /\ fw_opened # NoPath => fw_opened \notin fw_exists
    /\ fw_pc \in { "returned", "ended" } =>
          IF FreeCandidates = { }
          THEN fw_result = "NULL" /\ fw_opened = NoPath
          ELSE /\ fw_result = "file"
               /\ fw_opened = Candidate(CHOOSE n \in FreeCandidates :
                                          \A k \in FreeCandidates : n <= k)

\* C40: every alternative name safe_create builds, with its terminator,
\* fits in scratch, which has strlen (filename) + 2 bytes.
C40_AltNameFitsScratch == fw_written <= ScratchSize(fw_filename)

====
